---- MODULE Spec2Model ----
\* Model of monitorWebProvider (src/src/totp/totp-tool-gate.test.ts, lines
\* 622-1303): the connection loop with its heartbeat / watchdog timers and
\* the per-sender inbound batcher that runs on every open connection.
\*
\* Time is the value of Date.now() in milliseconds; the clock advances in
\* steps of one minute (TickMs), the granularity of the watchdog check.
\* The 150 ms batch retry timers are below that granularity and fire at
\* any moment while they are armed.
EXTENDS Integers, Sequences, FiniteSets, TLC

\* ---------------------------------------------------------------- bounds
MaxTicks == 33
LoopTicks == 4
LoopMsgs == 1
MaxConnects == 3
MaxMsgs == 3
MaxAttemptsCfg == 2
MaxQueue == 1
MaxCalls == 1
HbTicks == 2
SessionTicks == 4
TotpTicks == 3
EnrollTicks == 1
MaxTotpAttempts == 2
\* the parts a document is written in by writeFile
DocParts == 2
MaxOps == 3
MaxCrashes == 1
MaxBytes == 5
MaxBindings == 2
MaxGateCalls == 4
GateTicks == 2
MaxBeats == 2
BeatTicks == 2
MaxRegs == 3
MaxHttpOps == 5

Senders == {"s1", "s2"}
Users == {"u1", "u2"}
Secrets == {1, 2}

\* ------------------------------------------------------ program constants
TickMs == 60 * 1000
MESSAGE_TIMEOUT_MS == 30 * 60 * 1000
WATCHDOG_CHECK_MS == 60 * 1000
MAX_RECENT_MESSAGES == 100
DEFAULT_REPLY_HEARTBEAT_MINUTES == 30
WEB_TEXT_LIMIT == 4000
HEARTBEAT_TOKEN == "HEARTBEAT_OK"
DEFAULT_TIME_STEP == 30
DEFAULT_WINDOW == 1
null == 0
\* An option that is not configured.
undefined == 0 - 1

\* A key of the session store without an entry.
NoEntry == [exists |-> FALSE, sessionId |-> null, updatedAt |-> 0]

\* No snapshot of a session was taken.
NoSnapshot == [taken |-> FALSE, entry |-> NoEntry, fresh |-> FALSE, idleMinutes |-> 0,
               at |-> 0, isHeartbeat |-> FALSE]

\* No reply of the agent.
NoReply == [present |-> FALSE, text |-> << >>, media |-> 0]

\* The record of the last heartbeat: runs flips with every tick of
\* runReplyHeartbeat, calls counts the calls of runWebHeartbeatOnce, and
\* the other fields tell what the last of them did.  A traced record
\* also keeps what the agent answered (reply), the text that was handed to
\* the sender (text) and whether the call ended in a throw (threw).
NoHeartbeat == [runs |-> 0, calls |-> 0, queued |-> 0, invoked |-> FALSE,
                storeRead |-> FALSE, storeWritten |-> FALSE, sent |-> FALSE,
                traced |-> FALSE, reply |-> NoReply, text |-> << >>, threw |-> FALSE,
                to |-> "", withSessionId |-> FALSE, tokenExact |-> FALSE,
                snapshot |-> NoSnapshot]

\* No delivery is in progress.
NoDelivery == [phase |-> "idle"]

\* No call of runWebHeartbeatOnce is waiting for the agent: runs counts
\* the calls, and real is the updatedAt that the last exchange with the
\* recipient has written while the call in progress was waiting.
NoBeat == [pc |-> "idle", to |-> "", snapshot |-> NoSnapshot, real |-> 0, runs |-> 0]

VARIABLES
  \* parameters of monitorWebProvider and resolved configuration
  keepAlive, maxAttempts, heartbeatSeconds, replyHeartbeatMinutes, cfg,
  \* environment
  now, aborted, sigintStop, queueSize,
  \* the connection loop
  pc, next, reconnectAttempts, connects, startedAt, lastMessageAt,
  lastInboundMsg, timers, ipcServer, listenerOpen, listenerSince,
  lastError, backoffAttempts, reason,
  \* the batcher and the echo guard
  pendingBatches, batchTimers, recentlySent, inflight,
  \* history
  msgCount, accepted, flushes, linked, lastBusy, busyIds, owed,
  \* the session store and the reply heartbeat
  store, sessionCfg, lastHb,
  \* the delivery of the reply payloads of one agent invocation
  dlv,
  \* the TOTP store as its operations leave it, and the last operation
  totpFile, totpCfg, totpLast,
  \* the store file on disk, its lock, and the processes working on it
  disk, lock, proc,
  \* the route bindings and the last resolution
  routing,
  \* the base32 codec: the last input and what came out
  codec,
  \* the calls of checkTotpGate in progress
  gate,
  \* the EMPTY_STORE value of the store module
  emptyStore,
  \* a call of runWebHeartbeatOnce in progress
  beat,
  \* the plugin registry and the last request to a route
  http

paramVars == <<keepAlive, maxAttempts, heartbeatSeconds, replyHeartbeatMinutes, cfg>>
envVars == <<now, aborted, sigintStop, queueSize>>
loopVars == <<pc, next, reconnectAttempts, connects, startedAt, lastMessageAt,
              lastInboundMsg, timers, ipcServer, listenerOpen, listenerSince,
              lastError, backoffAttempts, reason>>
batchVars == <<pendingBatches, batchTimers, recentlySent, inflight>>
histVars == <<msgCount, accepted, flushes, linked, lastBusy, busyIds, owed>>
sessVars == <<store, sessionCfg, lastHb>>
totpVars == <<totpFile, totpCfg, totpLast>>
fileVars == <<disk, lock, proc>>
lateVars == <<gate, emptyStore, beat, http>>
asideVars == <<totpVars, fileVars, routing, codec, lateVars>>
\* everything of the monitor but the clock
monitorVars == <<paramVars, aborted, sigintStop, queueSize, loopVars, batchVars,
                 histVars, sessVars, dlv>>
vars == <<paramVars, envVars, loopVars, batchVars, histVars, sessVars, dlv, asideVars>>

Cycles == 1..MaxConnects

\* ------------------------------------------------------------ text values
\* A text is a sequence of lines; a line is the timestamp prefix, the
\* message prefix and the body it was built from.  A bare body (an inbound
\* msg.body, a reply text) is the one-line text without prefixes.
PlainText(b) == << [ts |-> 0, prefix |-> "", body |-> b] >>

\* formatTimestamp: "" when cfg.inbound.timestampPrefix is false, else the
\* minute of the message timestamp.
formatTimestamp(ts) == IF cfg.timestampPrefix THEN ts ELSE 0

\* buildLine: timestamp prefix, message prefix, body.
buildLine(msg) ==
  [ts |-> formatTimestamp(msg.timestamp), prefix |-> cfg.messagePrefix, body |-> msg.body]

\* messages.map(buildLine).join("\n")
combinedBodyOf(messages) == [i \in 1..Len(messages) |-> buildLine(messages[i])]

\* --------------------------------------------------------- the echo guard
\* recentlySent is a JavaScript Set: insertion ordered, no duplicates.
Has(rs, t) == \E i \in 1..Len(rs) : rs[i] = t

Add(rs, t) == IF Has(rs, t) THEN rs ELSE Append(rs, t)

Delete(rs, t) == SelectSeq(rs, LAMBDA x : x # t)

\* A text that is the empty string is falsy in JavaScript.
IsEmptyString(t) == t = << >> \/ t = PlainText("")

\* if (recentlySent.size > MAX_RECENT_MESSAGES) { firstKey = first value;
\*   if (firstKey) recentlySent.delete(firstKey) }
EvictOldest(rs) ==
  IF Len(rs) > MAX_RECENT_MESSAGES /\ ~IsEmptyString(Head(rs)) THEN Tail(rs) ELSE rs

\* ------------------------------------------------------------ the batcher
NoBatch == [messages |-> << >>, timer |-> FALSE]

NoMsg == [id |-> 0, from |-> "", body |-> "", timestamp |-> 0]

\* processBatch flushing without looking at the queue.
queueBusy_never(q) == FALSE

\* getQueueSize() > 0 in processBatch
queueBusy(q) == q > 0

\* getQueueSize() === 0 in enqueueBatch
queueFree(q) == q = 0

\* A fresh bucket for every message.
pushMessage_fresh(bucket, msg) == [bucket EXCEPT !.messages = << msg >>]

\* bucket.messages.push(msg) on the sender's bucket (a new one when absent)
pushMessage(bucket, msg) == [bucket EXCEPT !.messages = Append(@, msg)]

\* The retry of processBatch when the queue is busy.
rearmed_not(bt, c, from) == bt

\* batch.timer = setTimeout(() => void processBatch(from), 150)
rearmed(bt, c, from) == [bt EXCEPT ![c][from] = @ + 1]

\* processBatch(from) of connection cycle c, run on the maps pb / bt.
\* The result holds the new pending map, the new count of armed retry
\* timers, the echo guard, the flush history and the pending agent calls.
processBatch(c, from, pb, bt) ==
  LET batch == pb[c][from]
      same == [pb |-> pb, bt |-> bt, rs |-> recentlySent, fl |-> flushes,
               inf |-> inflight]
  IN IF Len(batch.messages) = 0 THEN same
     ELSE IF queueBusy(queueSize)
       THEN [same EXCEPT !.pb = [pb EXCEPT ![c][from].timer = TRUE],
                         !.bt = rearmed(bt, c, from)]
       ELSE LET combinedBody == combinedBodyOf(batch.messages)
                echo == Has(recentlySent, combinedBody)
                entry == [cycle |-> c, from |-> from, messages |-> batch.messages,
                          body |-> combinedBody, invoked |-> ~echo]
            IN [pb |-> [pb EXCEPT ![c][from] = NoBatch],
                bt |-> bt,
                rs |-> IF echo THEN Delete(recentlySent, combinedBody) ELSE recentlySent,
                fl |-> Append(flushes, entry),
                inf |-> IF echo THEN inflight ELSE inflight \cup {Len(flushes) + 1}]

\* enqueueBatch(msg) on the maps of the current connection cycle.
enqueueBatch(msg) ==
  LET c == connects
      pb1 == [pendingBatches EXCEPT ![c][msg.from] = pushMessage(@, msg)]
  IN IF queueFree(queueSize)
     THEN processBatch(c, msg.from, pb1, batchTimers)
     ELSE [pb |-> [pb1 EXCEPT ![c][msg.from].timer = TRUE],
           bt |-> IF pb1[c][msg.from].timer THEN batchTimers
                  ELSE rearmed(batchTimers, c, msg.from),
           rs |-> recentlySent, fl |-> flushes, inf |-> inflight]

ApplyBatch(r) ==
  /\ pendingBatches' = r.pb
  /\ batchTimers' = r.bt
  /\ recentlySent' = r.rs
  /\ flushes' = r.fl
  /\ inflight' = r.inf

\* The onMessage callback handed to the listener factory.
OnMessage(from, body) ==
  /\ pc = "connected"
  /\ listenerOpen
  /\ msgCount < MaxMsgs
  /\ LET msg == [id |-> msgCount + 1, from |-> from, body |-> body, timestamp |-> now]
     IN /\ msgCount' = msgCount + 1
        /\ lastMessageAt' = now
        /\ lastInboundMsg' = msg
        /\ owed' = {r \in owed : r.text # PlainText(msg.body)}
        /\ IF Has(recentlySent, PlainText(msg.body))
           THEN /\ recentlySent' = Delete(recentlySent, PlainText(msg.body))
                /\ UNCHANGED <<pendingBatches, batchTimers, flushes, inflight,
                               accepted, linked, lastBusy, busyIds>>
           ELSE /\ ApplyBatch(enqueueBatch(msg))
                /\ accepted' = Append(accepted, msg)
                /\ IF queueSize > 0
                   THEN /\ lastBusy' = [lastBusy EXCEPT ![from] = msg.id]
                        /\ busyIds' = busyIds \cup {msg.id}
                        /\ linked' = IF lastBusy[from] # 0
                                     THEN linked \cup {<<lastBusy[from], msg.id>>}
                                     ELSE linked
                   ELSE UNCHANGED <<linked, lastBusy, busyIds>>
  /\ UNCHANGED <<paramVars, asideVars, sessVars, dlv, envVars, pc, next, reconnectAttempts, connects,
                 startedAt, timers, ipcServer, listenerOpen, listenerSince,
                 lastError, backoffAttempts, reason>>

\* The 150 ms retry timer of processBatch(from), created in cycle c, fires.
BatchTimerFires(c, from) ==
  /\ batchTimers[c][from] > 0
  /\ ApplyBatch(processBatch(c, from, pendingBatches,
                             [batchTimers EXCEPT ![c][from] = @ - 1]))
  /\ UNCHANGED <<paramVars, asideVars, sessVars, dlv, envVars, loopVars, msgCount, accepted, owed, linked, lastBusy, busyIds>>

\* The replies of one agent invocation are delivered in order; a delivery
\* that throws is caught and registers nothing.
RECURSIVE deliverReplies(_, _, _, _)
deliverReplies(rs, replyList, delivered, combinedBody) ==
  IF replyList = << >> THEN rs
  ELSE LET text == Head(replyList).text
           rs1 == IF Head(delivered) /\ ~IsEmptyString(text)
                  THEN EvictOldest(Add(Add(rs, text), combinedBody))
                  ELSE rs
       IN deliverReplies(rs1, Tail(replyList), Tail(delivered), combinedBody)

ReplyLists == { << >>, << [text |-> PlainText("a")] >> }

\* The reply texts that went out: the payloads with a text whose
\* deliverWebReply returned.
SentTexts(replyList, delivered) ==
  {replyList[j].text : j \in {k \in 1..Len(replyList) :
                                delivered[k] /\ ~IsEmptyString(replyList[k].text)}}

\* replyResolver resolves for the invocation of flush i.
AgentReplies(i, replyList, delivered) ==
  /\ i \in inflight
  /\ Len(delivered) = Len(replyList)
  /\ inflight' = inflight \ {i}
  /\ recentlySent' = deliverReplies(recentlySent, replyList, delivered, flushes[i].body)
  /\ owed' = owed \cup {[via |-> "reply", text |-> t] : t \in SentTexts(replyList, delivered)}
  /\ UNCHANGED <<paramVars, asideVars, sessVars, dlv, envVars, loopVars, pendingBatches, batchTimers,
                 msgCount, accepted, flushes, linked, lastBusy, busyIds>>

BoolSeqs(n) == [1..n -> BOOLEAN]

\* Some pending agent invocation resolves, with any reply list and any
\* outcome of each delivery.
AgentRepliesAny ==
  \E i \in inflight, rl \in ReplyLists :
     \E d \in BoolSeqs(Len(rl)) : AgentReplies(i, rl, d)

\* A message of k lines "a".
Lines(k) == [i \in 1..k |-> [ts |-> 0, prefix |-> "", body |-> "a"]]

\* The callback of startIpcServer: send message through the open
\* listener, then register it in the echo guard.  A send that throws
\* leaves everything as it is.
IpcSend(message, sendOk) ==
  /\ pc = "connected"
  /\ ipcServer
  /\ IF sendOk /\ ~IsEmptyString(message)
     THEN /\ recentlySent' = EvictOldest(Add(recentlySent, message))
          /\ owed' = owed \cup {[via |-> "ipc", text |-> message]}
     ELSE UNCHANGED <<recentlySent, owed>>
  /\ UNCHANGED <<paramVars, asideVars, sessVars, dlv, envVars, loopVars, pendingBatches, batchTimers,
                 inflight, msgCount, accepted, flushes, linked, lastBusy, busyIds>>

\* ------------------------------------------------------ outbound delivery
\* The characters of a reply text: a sequence of runs, where 0 is a line
\* break and n > 0 stands for n characters other than line terminators.  A
\* chunk is a slice of the text: the offset of its first character and
\* its length.
RECURSIVE textLength(_)
textLength(chars) ==
  IF chars = << >> THEN 0
  ELSE (IF Head(chars) = 0 THEN 1 ELSE Head(chars)) + textLength(Tail(chars))

NoChunk == [from |-> 0, len |-> 0]

\* The matches of .{1,WEB_TEXT_LIMIT} within one line of len characters
\* that starts at offset from.
RECURSIVE chunkLine(_, _)
chunkLine(from, len) ==
  IF len = 0 THEN << >>
  ELSE IF len <= WEB_TEXT_LIMIT THEN << [from |-> from, len |-> len] >>
  ELSE << [from |-> from, len |-> WEB_TEXT_LIMIT] >>
       \o chunkLine(from + WEB_TEXT_LIMIT, len - WEB_TEXT_LIMIT)

\* The global match walks the text; the dot matches no line terminator,
\* so a match ends at a line break and the next one starts behind it.
RECURSIVE matchAll(_, _, _, _)
matchAll(chars, pos, lineFrom, lineLen) ==
  IF chars = << >> THEN chunkLine(lineFrom, lineLen)
  ELSE IF Head(chars) = 0
  THEN chunkLine(lineFrom, lineLen) \o matchAll(Tail(chars), pos + 1, pos + 1, 0)
  ELSE matchAll(Tail(chars), pos + Head(chars), lineFrom, lineLen + Head(chars))

\* textChunks of deliverWebReply
textChunks(chars) == matchAll(chars, 0, 0, 0)

\* The caption put on every media item.
captionIndex_all(index) == TRUE

\* index === 0: the caption goes on the first media item
captionIndex(index) == index = 1

\* The batch given up after a delivery that threw.
resumeAfter_abort(k, n, threw) == IF threw THEN n + 1 ELSE k + 1

\* The for loop over replyList: the catch around deliverWebReply lets the
\* loop go on with the next payload.
resumeAfter(k, n, threw) == k + 1

\* deliverWebReply starts on payload k of the reply list of d.
startPayload(d, k) ==
  LET payload == d.replyList[k]
      chunks == textChunks(payload.chars)
  IN [d EXCEPT !.k = k, !.attempted = @ \cup {k}, !.chunks = chunks,
               !.remainingText = chunks, !.index = 1,
               !.phase = IF Len(payload.media) = 0 THEN "text" ELSE "media"]

\* Payload k is over, by a return or by a throw that processBatch
\* catches; the loop goes on or ends.
endPayload(d, threw) ==
  LET n == Len(d.replyList)
      d1 == [d EXCEPT !.failed = IF threw THEN @ \cup {d.k} ELSE @,
                      !.delivered = IF threw THEN @ ELSE @ \cup {d.k}]
      k1 == resumeAfter(d.k, n, threw)
  IN IF k1 <= n THEN startPayload(d1, k1)
     ELSE [d1 EXCEPT !.phase = "done", !.remainingText = << >>, !.chunks = << >>]

textEvent(k, chunk) == [k |-> k, kind |-> "text", chunk |-> chunk, media |-> ""]

mediaEvent(k, mediaUrl, caption) == [k |-> k, kind |-> "media", chunk |-> caption, media |-> mediaUrl]

\* The replies of flush i arrive from the agent and processBatch starts
\* to deliver them.
RepliesArrive(i, replyList) ==
  /\ i \in inflight
  /\ dlv.phase = "idle"
  /\ inflight' = inflight \ {i}
  /\ dlv' = IF replyList = << >> THEN dlv
            ELSE startPayload([phase |-> "idle", flush |-> i, replyList |-> replyList,
                               k |-> 0, attempted |-> {}, delivered |-> {}, failed |-> {},
                               chunks |-> << >>, remainingText |-> << >>, index |-> 0,
                               wire |-> << >>, tried |-> {}, mediaFailed |-> {},
                               replyFailed |-> {}], 1)
  /\ UNCHANGED <<paramVars, asideVars, sessVars, envVars, loopVars, pendingBatches, batchTimers,
                 recentlySent, histVars>>

\* One turn of the media loop: load the item, send it (with the caption
\* on the first), and on a failure of the first item send the next text
\* chunk as a plain message.
MediaStep(loadOk, sendOk, replyOk) ==
  /\ dlv.phase = "media"
  /\ LET k == dlv.k
         media == dlv.replyList[k].media
         mediaUrl == media[dlv.index]
         shifted == loadOk /\ captionIndex(dlv.index) /\ dlv.remainingText # << >>
         caption == IF shifted THEN Head(dlv.remainingText) ELSE NoChunk
         rest == IF shifted THEN Tail(dlv.remainingText) ELSE dlv.remainingText
         sent == loadOk /\ sendOk
         fallback == ~sent /\ dlv.index = 1 /\ rest # << >>
         threw == fallback /\ ~replyOk
         d1 == [dlv EXCEPT
                  !.tried = @ \cup {<<k, dlv.index>>},
                  !.mediaFailed = IF sent THEN @
                                  ELSE @ \cup {<<k, dlv.index, IF loadOk THEN "send" ELSE "load">>},
                  !.replyFailed = IF threw THEN @ \cup {k} ELSE @,
                  !.wire = IF sent THEN Append(@, mediaEvent(k, mediaUrl, caption))
                           ELSE IF fallback /\ replyOk THEN Append(@, textEvent(k, Head(rest)))
                           ELSE @,
                  !.remainingText = IF fallback THEN Tail(rest) ELSE rest,
                  !.index = @ + 1,
                  !.phase = IF dlv.index = Len(media) THEN "text" ELSE "media"]
     IN dlv' = IF threw THEN endPayload(d1, TRUE) ELSE d1
  /\ UNCHANGED <<paramVars, asideVars, sessVars, envVars, loopVars, batchVars, histVars>>

\* msg.reply(chunk) for the next text chunk; a throw leaves deliverWebReply.
TextStep(replyOk) ==
  /\ dlv.phase = "text"
  /\ dlv.remainingText # << >>
  /\ dlv' = IF replyOk
            THEN [dlv EXCEPT !.wire = Append(@, textEvent(dlv.k, Head(dlv.remainingText))),
                             !.remainingText = Tail(@)]
            ELSE endPayload([dlv EXCEPT !.replyFailed = @ \cup {dlv.k}], TRUE)
  /\ UNCHANGED <<paramVars, asideVars, sessVars, envVars, loopVars, batchVars, histVars>>

\* deliverWebReply returns: processBatch registers the reply text and the
\* combined body in the echo guard and goes on with the next payload.
PayloadReturns ==
  /\ dlv.phase = "text"
  /\ dlv.remainingText = << >>
  /\ LET text == dlv.replyList[dlv.k].text
     IN IF ~IsEmptyString(text)
        THEN /\ recentlySent' = EvictOldest(Add(Add(recentlySent, text), flushes[dlv.flush].body))
             /\ owed' = owed \cup {[via |-> "reply", text |-> text]}
        ELSE UNCHANGED <<recentlySent, owed>>
  /\ dlv' = endPayload(dlv, FALSE)
  /\ UNCHANGED <<paramVars, asideVars, sessVars, envVars, loopVars, pendingBatches, batchTimers,
                 inflight, msgCount, accepted, flushes, linked, lastBusy, busyIds>>

\* ------------------------------------------------- sessions and heartbeats
\* A heartbeat reply text is a sequence of words: a blank, the token, or
\* another word.  The texts of the model have one word once stripped,
\* which is then the body of the text that is sent.
RECURSIVE trimStart(_)
trimStart(words) ==
  IF words # << >> /\ Head(words) = " " THEN trimStart(Tail(words)) ELSE words

RECURSIVE trimEnd(_)
trimEnd(words) ==
  IF words # << >> /\ words[Len(words)] = " "
  THEN trimEnd(SubSeq(words, 1, Len(words) - 1)) ELSE words

trim(words) == trimEnd(trimStart(words))

\* trimmed.replace(HEARTBEAT_TOKEN, ""): the first occurrence alone.
RECURSIVE replaceFirst(_)
replaceFirst(words) ==
  IF words = << >> THEN << >>
  ELSE IF Head(words) = HEARTBEAT_TOKEN THEN Tail(words)
  ELSE << Head(words) >> \o replaceFirst(Tail(words))

\* stripHeartbeatToken taking out the first occurrence of the token only.
stripHeartbeatToken_first(raw) ==
  LET trimmed == trim(raw)
      withoutToken == trim(replaceFirst(trimmed))
  IN IF raw = << >> \/ trimmed = << >> \/ trimmed = << HEARTBEAT_TOKEN >>
     THEN [shouldSkip |-> TRUE, text |-> << >>]
     ELSE [shouldSkip |-> withoutToken = << >>,
           text |-> IF withoutToken # << >> THEN withoutToken ELSE trimmed]

\* stripHeartbeatToken(raw)
stripHeartbeatToken(raw) ==
  LET trimmed == trim(raw)
      withoutToken == trim(SelectSeq(trimmed, LAMBDA w : w # HEARTBEAT_TOKEN))
  IN IF raw = << >> \/ trimmed = << >> \/ trimmed = << HEARTBEAT_TOKEN >>
     THEN [shouldSkip |-> TRUE, text |-> << >>]
     ELSE [shouldSkip |-> withoutToken = << >>,
           text |-> IF withoutToken # << >> THEN withoutToken ELSE trimmed]

bodyOf(words) == IF words = << >> THEN "" ELSE words[1]

\* The idle limit of getSessionSnapshot: heartbeatIdleMinutes ?? idleMinutes
\* for a heartbeat, idleMinutes otherwise (always configured here), and
\* never below one minute.
idleMinutesOf(isHeartbeat) ==
  LET configured == IF isHeartbeat /\ sessionCfg.heartbeatIdleMinutes # undefined
                    THEN sessionCfg.heartbeatIdleMinutes
                    ELSE sessionCfg.idleMinutes
  IN IF configured > 1 THEN configured ELSE 1

\* The freshness test with < in place of <=.
isFresh_lt(entry, t, idle) == entry.exists /\ t - entry.updatedAt < idle * 60000

\* fresh = !!(entry && Date.now() - entry.updatedAt <= idleMinutes * 60_000)
isFresh(entry, t, idle) == entry.exists /\ t - entry.updatedAt <= idle * 60000

\* getSessionSnapshot(cfg, from, isHeartbeat) on the store st at time t; the
\* scope is per-sender and the key of a sender is the sender.
getSessionSnapshot(st, from, isHeartbeat, t) ==
  [taken |-> TRUE, entry |-> st[from],
   fresh |-> isFresh(st[from], t, idleMinutesOf(isHeartbeat)),
   idleMinutes |-> idleMinutesOf(isHeartbeat), at |-> t, isHeartbeat |-> isHeartbeat]

\* getFallbackRecipient: the key of the most recently updated entry; no
\* allowFrom is configured, so there is none when the store is empty.
FallbackRecipients(st) ==
  {s \in Senders : st[s].exists /\ \A o \in Senders : st[o].exists => st[o].updatedAt <= st[s].updatedAt}

\* The agent call may refresh the session of its sender.
touch(st, key, touched, t) ==
  IF touched
  THEN [st EXCEPT ![key] = [exists |-> TRUE,
                            sessionId |-> IF @.exists THEN @.sessionId ELSE 1,
                            updatedAt |-> t]]
  ELSE st

\* The replies of the agent to the heartbeat prompt: none, the token, the
\* token between blanks, an alert, an alert next to the token, media with
\* the token.
HbReplies ==
  { NoReply,
    [present |-> TRUE, text |-> << HEARTBEAT_TOKEN >>, media |-> 0],
    [present |-> TRUE, text |-> << " ", HEARTBEAT_TOKEN, " " >>, media |-> 0],
    [present |-> TRUE, text |-> << "a" >>, media |-> 0],
    [present |-> TRUE, text |-> << HEARTBEAT_TOKEN, " ", "a" >>, media |-> 0],
    [present |-> TRUE, text |-> << HEARTBEAT_TOKEN >>, media |-> 1] }

emptyReply(reply) == ~reply.present \/ (reply.text = << >> /\ reply.media = 0)

\* runWebHeartbeatOnce before it awaits replyResolver: with a sessionId
\* argument the entry of the recipient is written first.
beforeReply(st, to, sessionId, t) ==
  IF sessionId # null
  THEN [st EXCEPT ![to] = [exists |-> TRUE, sessionId |-> sessionId, updatedAt |-> t]]
  ELSE st

\* runWebHeartbeatOnce from the return of replyResolver on, with the
\* snapshot it took before: the store it leaves, the body of the text it
\* sends ("" for none), the text it hands to the sender, and whether the
\* sender threw.
afterReply(st1, sessionSnapshot, to, reply, touched, sendOk, t) ==
  LET st2 == touch(st1, to, touched, t)
      stripped == stripHeartbeatToken(reply.text)
      finalText == IF stripped.text # << >> THEN stripped.text ELSE reply.text
  IN IF emptyReply(reply)
     THEN [store |-> st2, sent |-> "", snapshot |-> sessionSnapshot, restored |-> FALSE,
           text |-> << >>, threw |-> FALSE]
     ELSE IF stripped.shouldSkip /\ reply.media = 0
     THEN [store |-> IF sessionSnapshot.entry.exists /\ st2[to].exists
                     THEN [st2 EXCEPT ![to].updatedAt = sessionSnapshot.entry.updatedAt]
                     ELSE st2,
           sent |-> "", snapshot |-> sessionSnapshot,
           restored |-> sessionSnapshot.entry.exists /\ st2[to].exists,
           text |-> << >>, threw |-> FALSE]
     ELSE [store |-> st2, sent |-> IF sendOk THEN bodyOf(finalText) ELSE "",
           snapshot |-> sessionSnapshot, restored |-> FALSE,
           text |-> finalText, threw |-> ~sendOk]

\* runWebHeartbeatOnce({to, sessionId, replyResolver, ...}) without
\* overrideBody and dryRun, on the store st at time t, with nothing else
\* at the store while it waits for the agent.
runWebHeartbeatOnce(st, to, sessionId, reply, touched, sendOk, t) ==
  LET st1 == beforeReply(st, to, sessionId, t)
  IN afterReply(st1, getSessionSnapshot(st1, to, TRUE, t), to, reply, touched, sendOk, t)

\* getSessionSnapshot is called for sender from.
SnapshotTaken(from, isHeartbeat) ==
  /\ lastHb' = [lastHb EXCEPT !.snapshot = getSessionSnapshot(store, from, isHeartbeat, now)]
  /\ UNCHANGED <<paramVars, asideVars, store, sessionCfg, dlv, envVars, loopVars, batchVars, histVars>>

\* An exchange with sender from refreshes, or creates, the session.
SessionTouched(from) ==
  /\ store[from].updatedAt # now
  /\ store' = touch(store, from, TRUE, now)
  /\ UNCHANGED <<paramVars, asideVars, sessionCfg, lastHb, dlv, envVars, loopVars, batchVars, histVars>>

\* The command queue of the process fills or drains.
QueueChanges(q) ==
  /\ q # queueSize
  /\ queueSize' = q
  /\ lastBusy' = IF q = 0 THEN [s \in Senders |-> 0] ELSE lastBusy
  /\ UNCHANGED <<paramVars, asideVars, sessVars, dlv, now, aborted, sigintStop, loopVars, batchVars,
                 msgCount, accepted, owed, flushes, linked, busyIds>>

\* ----------------------------------------------------- the connection loop
\* stopRequested taken as never set.
stopRequested_never(ab) == FALSE

\* stopRequested(): abortSignal?.aborted === true
stopRequested(ab) == ab = TRUE

\* The reset taken at an uptime of exactly one heartbeat interval too.
healthyStretch_ge(uptimeMs, hbSeconds) == uptimeMs >= hbSeconds * 1000

\* uptimeMs > heartbeatSeconds * 1000: a healthy stretch resets the backoff
healthyStretch(uptimeMs, hbSeconds) == uptimeMs > hbSeconds * 1000

\* The logout flag of the close reason ignored.
loggedOut_ignored(r) == FALSE

\* loggedOut: the close reason carries isLoggedOut
loggedOut(r) == ~r.aborted /\ r.isLoggedOut

\* The attempt limit compared with > instead of >=.
maxAttemptsReached_gt(attempts, maxA) == maxA > 0 /\ attempts > maxA

\* The attempt limit applied to maxAttempts = 0 as well.
maxAttemptsReached_zero(attempts, maxA) == attempts >= maxA

\* reconnectPolicy.maxAttempts > 0 && reconnectAttempts >= maxAttempts
maxAttemptsReached(attempts, maxA) == maxA > 0 /\ attempts >= maxA

\* closeListener without clearInterval(watchdogTimer).
clearedTimers_noWatchdog(ts, c) == {t \in ts : t.cycle # c \/ t.kind = "watchdog"}

\* The interval timers that closeListener of cycle c clears: the handles
\* heartbeat, replyHeartbeatTimer and watchdogTimer of that cycle.
clearedTimers(ts, c) == {t \in ts : t.cycle # c}

\* The watchdog check: lastMessageAt set and older than MESSAGE_TIMEOUT_MS.
watchdogExpired(last, t) == last # null /\ t - last > MESSAGE_TIMEOUT_MS

\* The timers created once the listener is up.
createdTimers(c, t) ==
  (IF keepAlive
   THEN {[kind |-> "heartbeat", cycle |-> c, due |-> t + heartbeatSeconds * 1000],
         [kind |-> "watchdog", cycle |-> c, due |-> t + WATCHDOG_CHECK_MS]}
   ELSE {})
  \cup
  (IF replyHeartbeatMinutes # null
   THEN {[kind |-> "replyHeartbeat", cycle |-> c, due |-> t + replyHeartbeatMinutes * 60000]}
   ELSE {})

\* closeListener up to its await of listener.close(): stopIpcServer(), the
\* three clearInterval calls, listener.close().
closeListener(ts) ==
  /\ ipcServer' = FALSE
  /\ timers' = clearedTimers(ts, connects)
  /\ listenerOpen' = FALSE

AbortedReason == [aborted |-> TRUE, isLoggedOut |-> FALSE]

NoReason == [aborted |-> FALSE, isLoggedOut |-> FALSE]

\* The continuation of Promise.race([listener.onClose, abortPromise]) up to
\* the await of closeListener(); ab is the state of the abort signal and ts
\* the timers armed when it runs.
raceResolved(r, ab, ts) ==
  LET attempts0 == IF healthyStretch(now - startedAt, heartbeatSeconds)
                   THEN 0 ELSE reconnectAttempts
  IN /\ closeListener(ts)
     /\ reason' = r
     /\ pc' = "closing"
     /\ IF stopRequested(ab) \/ sigintStop \/ r.aborted
        THEN /\ reconnectAttempts' = attempts0
             /\ next' = "stop"
             /\ UNCHANGED <<lastError, backoffAttempts>>
        ELSE IF loggedOut(r)
        THEN /\ reconnectAttempts' = attempts0
             /\ lastError' = "loggedOut"
             /\ next' = "stop"
             /\ UNCHANGED backoffAttempts
        ELSE IF maxAttemptsReached(attempts0 + 1, maxAttempts)
        THEN /\ reconnectAttempts' = attempts0 + 1
             /\ lastError' = "giveUp"
             /\ next' = "stop"
             /\ UNCHANGED backoffAttempts
        ELSE /\ reconnectAttempts' = attempts0 + 1
             /\ lastError' = "retry"
             /\ backoffAttempts' = attempts0 + 1
             /\ next' = "sleep"

\* The top of the while loop: break when a stop was requested, else call
\* the listener factory for a new connection cycle.
loopTop(ab) ==
  IF stopRequested(ab)
  THEN /\ pc' = "stopped"
       /\ UNCHANGED <<connects, startedAt, lastMessageAt, lastInboundMsg, lastBusy>>
  ELSE /\ connects < MaxConnects
       /\ pc' = "connecting"
       /\ connects' = connects + 1
       /\ startedAt' = now
       /\ lastMessageAt' = null
       /\ lastInboundMsg' = NoMsg
       /\ lastBusy' = [s \in Senders |-> 0]

\* monitorWebProvider is called.
Start ==
  /\ pc = "start"
  /\ loopTop(aborted)
  /\ UNCHANGED <<paramVars, asideVars, sessVars, dlv, envVars, next, reconnectAttempts, timers, ipcServer,
                 listenerOpen, listenerSince, lastError, backoffAttempts, reason,
                 batchVars, msgCount, accepted, owed, flushes, linked, busyIds>>

\* The listener factory resolves: IPC server, timers, then either the
\* one-shot return (keepAlive false) or the wait for a close or an abort.
Connected ==
  /\ pc = "connecting"
  /\ listenerSince' = now
  /\ IF ~keepAlive
     THEN /\ closeListener(timers \cup createdTimers(connects, now))
          /\ pc' = "closing"
          /\ next' = "stop"
          /\ UNCHANGED <<reconnectAttempts, lastError, backoffAttempts, reason>>
     ELSE IF aborted
     THEN raceResolved(AbortedReason, aborted, timers \cup createdTimers(connects, now))
     ELSE /\ pc' = "connected"
          /\ ipcServer' = TRUE
          /\ listenerOpen' = TRUE
          /\ timers' = timers \cup createdTimers(connects, now)
          /\ UNCHANGED <<next, reconnectAttempts, lastError, backoffAttempts, reason>>
  /\ UNCHANGED <<paramVars, asideVars, sessVars, dlv, envVars, connects, startedAt, lastMessageAt,
                 lastInboundMsg, batchVars, histVars>>

\* listener.onClose resolves (or rejects, which is taken as a close that
\* is not a logout).
ListenerClosed(isLoggedOut) ==
  /\ pc = "connected"
  /\ raceResolved([aborted |-> FALSE, isLoggedOut |-> isLoggedOut], aborted, timers)
  /\ UNCHANGED <<paramVars, asideVars, sessVars, dlv, envVars, connects, startedAt, lastMessageAt,
                 lastInboundMsg, listenerSince, batchVars, histVars>>

\* The abort signal fires.  Its listeners run at once: a pending race
\* resolves with "aborted", a pending sleep rejects.
Abort ==
  /\ ~aborted
  /\ pc # "stopped"
  /\ aborted' = TRUE
  /\ IF pc = "connected"
     THEN raceResolved(AbortedReason, TRUE, timers)
     ELSE IF pc = "backoff"
     THEN /\ pc' = "stopped"
          /\ UNCHANGED <<next, reconnectAttempts, timers, ipcServer, listenerOpen,
                         lastError, backoffAttempts, reason>>
     ELSE UNCHANGED <<pc, next, reconnectAttempts, timers, ipcServer, listenerOpen,
                      lastError, backoffAttempts, reason>>
  /\ UNCHANGED <<paramVars, asideVars, sessVars, dlv, now, sigintStop, queueSize, connects, startedAt,
                 lastMessageAt, lastInboundMsg, listenerSince, batchVars, histVars>>

\* handleSigint, installed by process.once("SIGINT", handleSigint) when
\* monitorWebProvider is called and removed when it returns.
Sigint ==
  /\ ~sigintStop
  /\ pc \notin {"start", "stopped"}
  /\ sigintStop' = TRUE
  /\ UNCHANGED <<paramVars, asideVars, sessVars, dlv, now, aborted, queueSize, loopVars, batchVars, histVars>>

\* sleepWithAbort(delay, abortSignal): rejects when the signal is aborted.
sleepRejects(ab) == ab = TRUE

\* The awaited closeListener() returns: leave the loop, or start the
\* backoff sleep.
CloseFinished ==
  /\ pc = "closing"
  /\ IF next = "stop" \/ sleepRejects(aborted)
     THEN pc' = "stopped"
     ELSE pc' = "backoff"
  /\ UNCHANGED <<paramVars, asideVars, sessVars, dlv, envVars, next, reconnectAttempts, connects, startedAt,
                 lastMessageAt, lastInboundMsg, timers, ipcServer, listenerOpen,
                 listenerSince, lastError, backoffAttempts, reason, batchVars, histVars>>

\* The backoff sleep runs out; the loop starts over.
SleepDone ==
  /\ pc = "backoff"
  /\ loopTop(aborted)
  /\ UNCHANGED <<paramVars, asideVars, sessVars, dlv, envVars, next, reconnectAttempts, timers, ipcServer,
                 listenerOpen, listenerSince, lastError, backoffAttempts, reason,
                 batchVars, msgCount, accepted, owed, flushes, linked, busyIds>>

\* One minute passes; an interval timer that is due fires first.
Tick(limit) ==
  /\ pc # "stopped"
  /\ now < limit * TickMs
  /\ \A t \in timers : t.due > now
  /\ now' = now + TickMs
  /\ UNCHANGED <<paramVars, asideVars, sessVars, dlv, aborted, sigintStop, queueSize, loopVars, batchVars, histVars>>

\* The heartbeat interval fires: a log record only.
HeartbeatFires(t) ==
  /\ t \in timers /\ t.kind = "heartbeat" /\ t.due <= now
  /\ timers' = (timers \ {t}) \cup {[t EXCEPT !.due = @ + heartbeatSeconds * 1000]}
  /\ UNCHANGED <<paramVars, asideVars, sessVars, dlv, envVars, pc, next, reconnectAttempts, connects, startedAt,
                 lastMessageAt, lastInboundMsg, ipcServer, listenerOpen,
                 listenerSince, lastError, backoffAttempts, reason, batchVars, histVars>>

\* The watchdog interval fires: closeListener() when the last message is
\* older than MESSAGE_TIMEOUT_MS.
WatchdogFires(t) ==
  /\ t \in timers /\ t.kind = "watchdog" /\ t.due <= now
  /\ IF watchdogExpired(lastMessageAt, now)
     THEN closeListener(timers)
     ELSE /\ timers' = (timers \ {t}) \cup {[t EXCEPT !.due = @ + WATCHDOG_CHECK_MS]}
          /\ UNCHANGED <<ipcServer, listenerOpen>>
  /\ UNCHANGED <<paramVars, asideVars, sessVars, dlv, envVars, pc, next, reconnectAttempts, connects, startedAt,
                 lastMessageAt, lastInboundMsg, listenerSince, lastError,
                 backoffAttempts, reason, batchVars, histVars>>

\* The backpressure check of runReplyHeartbeat taken as never positive.
requestsInFlight_never(q) == FALSE

\* queued = getQueueSize(); if (queued > 0) return
requestsInFlight(q) == q > 0

\* What a heartbeat leaves behind: the store, the echo guard, the texts
\* that went out, and the record of the run.
HeartbeatEffect(st, rs, ow, hb) ==
  /\ store' = st
  /\ recentlySent' = rs
  /\ owed' = ow
  /\ lastHb' = hb

\* runWebHeartbeatOnce is called for recipient to; its send goes through
\* sendWithIpcFallback, which reaches the IPC callback of this monitor
\* (and so the echo guard) or sends directly.
HeartbeatOnce(hb, to, sessionId, reply, touched, sendOk, viaIpc) ==
  LET r == runWebHeartbeatOnce(store, to, sessionId, reply, touched, sendOk, now)
      text == PlainText(r.sent)
      registered == r.sent # "" /\ viaIpc /\ ipcServer
  IN HeartbeatEffect(
       r.store,
       IF registered THEN EvictOldest(Add(recentlySent, text)) ELSE recentlySent,
       IF r.sent = "" THEN owed
       ELSE owed \cup {[via |-> IF registered THEN "ipc" ELSE "direct", text |-> text]},
       [hb EXCEPT !.calls = @ + 1, !.invoked = TRUE, !.storeRead = TRUE,
                  !.storeWritten = sessionId # null \/ r.restored,
                  !.sent = r.sent # "", !.to = to,
                  !.reply = IF hb.traced THEN reply ELSE NoReply,
                  !.text = IF hb.traced THEN r.text ELSE << >>,
                  !.threw = hb.traced /\ r.threw,
                  !.withSessionId = sessionId # null,
                  !.tokenExact = reply.present /\ reply.text = << HEARTBEAT_TOKEN >>
                                 /\ reply.media = 0,
                  !.snapshot = r.snapshot])

\* finalText.startsWith(responsePrefix); the prefix is one word.
startsWith(words, prefix) == words # << >> /\ Head(words) = prefix

\* The response prefix put before every text.
withResponsePrefix_always(words) ==
  IF cfg.responsePrefix # "" /\ words # << >>
  THEN << cfg.responsePrefix, " " >> \o words
  ELSE words

\* if (responsePrefix && finalText && !finalText.startsWith(responsePrefix))
\*   finalText = `${responsePrefix} ${finalText}`
withResponsePrefix(words) ==
  IF cfg.responsePrefix # "" /\ words # << >> /\ ~startsWith(words, cfg.responsePrefix)
  THEN << cfg.responsePrefix, " " >> \o words
  ELSE words

\* runReplyHeartbeat with the agent answering reply.
runReplyHeartbeat(reply, touched, sendOk, viaIpc) ==
  LET hb0 == [NoHeartbeat EXCEPT !.runs = 1 - lastHb.runs, !.calls = lastHb.calls,
                                 !.traced = lastHb.traced,
                                 !.queued = queueSize]
  IN IF requestsInFlight(queueSize) \/ replyHeartbeatMinutes = null
     THEN HeartbeatEffect(store, recentlySent, owed, hb0)
     ELSE IF lastInboundMsg = NoMsg
     THEN IF FallbackRecipients(store) = {}
          THEN HeartbeatEffect(store, recentlySent, owed, [hb0 EXCEPT !.storeRead = TRUE])
          ELSE \E fallbackTo \in FallbackRecipients(store) :
                 HeartbeatOnce(hb0, fallbackTo, store[fallbackTo].sessionId,
                               reply, touched, sendOk, viaIpc)
     ELSE LET from == lastInboundMsg.from
              snapshot == getSessionSnapshot(store, from, FALSE, now)
              stripped == stripHeartbeatToken(reply.text)
              alert == ~emptyReply(reply) /\ ~(stripped.shouldSkip /\ reply.media = 0)
              finalText == withResponsePrefix(stripped.text)
              text == PlainText(bodyOf(finalText))
              delivered == alert /\ sendOk /\ ~IsEmptyString(text)
          IN HeartbeatEffect(
               touch(store, from, touched, now),
               recentlySent,
               IF delivered THEN owed \cup {[via |-> "heartbeat", text |-> text]} ELSE owed,
               [hb0 EXCEPT !.invoked = TRUE, !.storeRead = TRUE, !.sent = delivered,
                           !.reply = IF hb0.traced THEN reply ELSE NoReply,
                           !.text = IF hb0.traced /\ alert THEN finalText ELSE << >>,
                           !.to = from, !.snapshot = snapshot])

\* The reply heartbeat interval fires and calls runReplyHeartbeat.
ReplyHeartbeatFires(t, reply, touched, sendOk, viaIpc) ==
  /\ t \in timers /\ t.kind = "replyHeartbeat" /\ t.due <= now
  /\ timers' = (timers \ {t}) \cup {[t EXCEPT !.due = @ + replyHeartbeatMinutes * 60000]}
  /\ runReplyHeartbeat(reply, touched, sendOk, viaIpc)
  /\ UNCHANGED <<paramVars, asideVars, sessionCfg, dlv, envVars, pc, next, reconnectAttempts, connects,
                 startedAt, lastMessageAt, lastInboundMsg, ipcServer, listenerOpen,
                 listenerSince, lastError, backoffAttempts, reason, pendingBatches,
                 batchTimers, inflight, msgCount, accepted, flushes, linked, lastBusy,
                 busyIds>>

\* Some reply heartbeat timer that is due fires, with any answer of the
\* agent and any outcome of the send.
ReplyHeartbeatAny ==
  \E t \in timers, reply \in HbReplies :
     \E touched \in BOOLEAN, sendOk \in BOOLEAN, viaIpc \in BOOLEAN :
        ReplyHeartbeatFires(t, reply, touched, sendOk, viaIpc)

\* runWebHeartbeatOnce is called from outside the monitor, without a
\* sessionId or with one.
HeartbeatOnceCalled(to, sessionId, reply, touched, sendOk, viaIpc) ==
  /\ pc = "connected"
  /\ lastHb.calls < MaxCalls
  /\ HeartbeatOnce(lastHb, to, sessionId, reply, touched, sendOk, viaIpc)
  /\ UNCHANGED <<paramVars, asideVars, sessionCfg, dlv, envVars, loopVars, pendingBatches,
                 batchTimers, inflight, msgCount, accepted, flushes, linked, lastBusy,
                 busyIds>>

\* runWebHeartbeatOnce({to, sessionId}) is called and runs up to its
\* await of replyResolver: the entry is written when a sessionId is
\* given, and the snapshot is taken.
BeatBegins(to, sessionId) ==
  /\ beat.pc = "idle"
  /\ beat.runs < MaxBeats
  /\ LET st1 == beforeReply(store, to, sessionId, now)
     IN /\ store' = st1
        /\ beat' = [pc |-> "awaiting", to |-> to,
                    snapshot |-> getSessionSnapshot(st1, to, TRUE, now),
                    real |-> 0, runs |-> beat.runs + 1]
  /\ UNCHANGED <<paramVars, totpVars, fileVars, routing, codec, gate, emptyStore, http,
                 sessionCfg, lastHb, dlv, envVars, loopVars, batchVars, histVars>>

\* An exchange with sender from (an inbound message and its auto-reply)
\* refreshes, or creates, the session, also while a heartbeat waits.
RealExchange(from) ==
  /\ store[from].updatedAt # now
  /\ store' = touch(store, from, TRUE, now)
  /\ beat' = IF beat.pc = "awaiting" /\ beat.to = from
             THEN [beat EXCEPT !.real = now]
             ELSE beat
  /\ UNCHANGED <<paramVars, totpVars, fileVars, routing, codec, gate, emptyStore, http,
                 sessionCfg, lastHb, dlv, envVars, loopVars, batchVars, histVars>>

\* replyResolver returns and runWebHeartbeatOnce runs to its end: the
\* updatedAt of the snapshot is put back on a silent reply, and an alert
\* is sent.
BeatEnds(reply, touched, sendOk) ==
  /\ beat.pc = "awaiting"
  /\ LET r == afterReply(store, beat.snapshot, beat.to, reply, touched, sendOk, now)
     IN /\ store' = r.store
        /\ owed' = IF r.sent = "" THEN owed
                   ELSE owed \cup {[via |-> "direct", text |-> PlainText(r.sent)]}
  /\ beat' = [beat EXCEPT !.pc = "idle"]
  /\ UNCHANGED <<paramVars, totpVars, fileVars, routing, codec, gate, emptyStore, http,
                 sessionCfg, lastHb, dlv, envVars, loopVars, batchVars, msgCount,
                 accepted, flushes, linked, lastBusy, busyIds>>

\* ------------------------------------------------------- the TOTP store
\* telegram-totp.json holds the enrolled users, their sessions and their
\* rate limit entries, each a list in the order of insertion.  Times are
\* epoch milliseconds: the ISO strings of the file are written by
\* toISOString and read back by Date.parse, which returns the same
\* millisecond.  enrolledAt, label and authenticatedAt, which no operation
\* reads, are left out of the entries.
EMPTY_STORE == [users |-> << >>, sessions |-> << >>, rateLimits |-> << >>]

\* The file at the store path: absent, or holding a document of which
\* written parts out of DocParts are on disk.
NoFile == [exists |-> FALSE, written |-> 0, doc |-> EMPTY_STORE]

wholeFile(doc) == [exists |-> TRUE, written |-> DocParts, doc |-> doc]

\* safeParseJson: null unless the text is a whole document.
safeParseJson(file) == file.written = DocParts

\* readJsonFile(filePath, fallback): the fallback when the file cannot be
\* read or does not parse.
readJsonFile(file, fallback) ==
  IF file.exists /\ safeParseJson(file) THEN file.doc ELSE fallback

\* ensureJsonFile(filePath, EMPTY_STORE): a missing file is created.
ensureJsonFile(file) == IF file.exists THEN file ELSE wholeFile(EMPTY_STORE)

\* list.findIndex((e) => e.telegramUserId === userId), 0 for none.
findIndex(list, userId) ==
  IF \E i \in 1..Len(list) : list[i].telegramUserId = userId
  THEN CHOOSE i \in 1..Len(list) :
         /\ list[i].telegramUserId = userId
         /\ \A j \in 1..(i - 1) : list[j].telegramUserId # userId
  ELSE 0

\* The filter that removes nothing.
withoutUser_none(list, userId) == list

\* list.filter((e) => e.telegramUserId !== userId)
withoutUser(list, userId) == SelectSeq(list, LAMBDA e : e.telegramUserId # userId)

\* list.splice(idx, 1)
splice(list, idx) == SubSeq(list, 1, idx - 1) \o SubSeq(list, idx + 1, Len(list))

\* hotpCode(secret, counter, digits): the code of a secret for a counter;
\* HMAC-SHA1 is taken as ideal, so different secrets or counters give
\* different codes.
hotpCode(secret, counter) == [secret |-> secret, counter |-> counter]

\* Math.floor(Date.now() / 1000 / timeStep)
timeCounter(t) == (t \div 1000) \div DEFAULT_TIME_STEP

\* verifyTotp(secret, code) with the default window of one step.
verifyTotp(secret, code, t) ==
  \E i \in (0 - DEFAULT_WINDOW)..DEFAULT_WINDOW :
     hotpCode(secret, timeCounter(t) + i) = code

\* The duplicate check of enrollTotpUser left out.
alreadyEnrolled_never(users, userId) == FALSE

\* store.users.find((u) => u.telegramUserId === userId)
alreadyEnrolled(users, userId) == findIndex(users, userId) # 0

\* The body of enrollTotpUser under the lock, on the document read: the
\* document it leaves, whether it wrote, and how it ended.
enrollTotpUser(doc, userId, secret, t) ==
  IF alreadyEnrolled(doc.users, userId)
  THEN [doc |-> doc, wrote |-> FALSE, result |-> "threw", compared |-> FALSE]
  ELSE [doc |-> [doc EXCEPT !.users =
                   Append(@, [telegramUserId |-> userId, secretBase32 |-> secret])],
        wrote |-> TRUE, result |-> "enrolled", compared |-> FALSE]

\* revokeTotpUser keeping the sessions of the user.
revokedSessions_kept(sessions, userId) == sessions

\* store.sessions.filter((s) => s.telegramUserId !== userId)
revokedSessions(sessions, userId) == withoutUser(sessions, userId)

\* The body of revokeTotpUser under the lock.
revokeTotpUser(doc, userId) ==
  LET idx == findIndex(doc.users, userId)
  IN IF idx = 0
     THEN [doc |-> doc, wrote |-> FALSE, result |-> "false", compared |-> FALSE]
     ELSE [doc |-> [users |-> splice(doc.users, idx),
                    sessions |-> revokedSessions(doc.sessions, userId),
                    rateLimits |-> withoutUser(doc.rateLimits, userId)],
           wrote |-> TRUE, result |-> "true", compared |-> FALSE]

\* Every window is taken to be over.
windowOver_always(windowStart, t, windowSec) == TRUE

\* now - windowStart > windowSec * 1000
windowOver(windowStart, t, windowSec) == t - windowStart > windowSec * 1000

\* The limit test with > in place of >=.
rateLimited_gt(attempts, maxA) == attempts > maxA

\* rateEntry.attempts >= maxAttempts
rateLimited(attempts, maxA) == attempts >= maxA

\* The rate limit entry once its window is over: attempts 0, a new window.
restarted(entry, t, windowSec) ==
  IF windowOver(entry.windowStart, t, windowSec)
  THEN [entry EXCEPT !.attempts = 0, !.windowStart = t]
  ELSE entry

\* The body of checkRateLimit under the lock: the restart of the window is
\* written only when the attempt is refused.
checkRateLimit(doc, userId, maxA, windowSec, t) ==
  LET idx == findIndex(doc.rateLimits, userId)
      entry == restarted(doc.rateLimits[idx], t, windowSec)
  IN IF idx # 0 /\ rateLimited(entry.attempts, maxA)
     THEN [doc |-> [doc EXCEPT !.rateLimits[idx] = entry],
           wrote |-> TRUE, result |-> "false", compared |-> FALSE]
     ELSE [doc |-> doc, wrote |-> FALSE, result |-> "true", compared |-> FALSE]

\* The session is created whatever verifyTotp says.
codeAccepted_always(secret, code, t) == TRUE

\* const valid = verifyTotp(secret, code)
codeAccepted(secret, code, t) == verifyTotp(secret, code, t)

\* The body of verifyAndCreateSession under the lock.
verifyAndCreateSession(doc, userId, code, sessionDurationSec, maxA, windowSec, t) ==
  LET uidx == findIndex(doc.users, userId)
      user == doc.users[uidx]
      found == findIndex(doc.rateLimits, userId)
      limits == IF found = 0
                THEN Append(doc.rateLimits,
                            [telegramUserId |-> userId, attempts |-> 0, windowStart |-> t])
                ELSE doc.rateLimits
      ridx == IF found = 0 THEN Len(limits) ELSE found
      rateEntry == restarted(limits[ridx], t, windowSec)
      with(entry) == [doc EXCEPT !.rateLimits = [limits EXCEPT ![ridx] = entry]]
  IN IF uidx = 0
     THEN [doc |-> doc, wrote |-> FALSE, result |-> "false", compared |-> FALSE]
     ELSE IF rateLimited(rateEntry.attempts, maxA)
     THEN [doc |-> with(rateEntry), wrote |-> TRUE, result |-> "false",
           compared |-> FALSE]
     ELSE IF ~codeAccepted(user.secretBase32, code, t)
     THEN [doc |-> with([rateEntry EXCEPT !.attempts = @ + 1]), wrote |-> TRUE,
           result |-> "false", compared |-> TRUE]
     ELSE [doc |-> [with([rateEntry EXCEPT !.attempts = 0]) EXCEPT !.sessions =
                      Append(withoutUser(doc.sessions, userId),
                             [telegramUserId |-> userId,
                              expiresAt |-> t + sessionDurationSec * 1000])],
           wrote |-> TRUE, result |-> "true", compared |-> TRUE]

\* The body of clearSession under the lock.
clearSession(doc, userId) ==
  LET sessions == withoutUser(doc.sessions, userId)
  IN IF Len(sessions) = Len(doc.sessions)
     THEN [doc |-> doc, wrote |-> FALSE, result |-> "false", compared |-> FALSE]
     ELSE [doc |-> [doc EXCEPT !.sessions = sessions], wrote |-> TRUE,
           result |-> "true", compared |-> FALSE]

\* The expiry test of hasValidSession left out.
notExpired_always(t, expires) == TRUE

\* now < expires
notExpired(t, expires) == t < expires

\* hasValidSession(userId): reads the file without the lock.
hasValidSession(file, userId, t) ==
  LET sessions == readJsonFile(file, EMPTY_STORE).sessions
  IN \E i \in 1..Len(sessions) :
        /\ sessions[i].telegramUserId = userId
        /\ notExpired(t, sessions[i].expiresAt)

\* isUserEnrolled(userId): reads the file without the lock.
isUserEnrolled(file, userId) ==
  LET users == readJsonFile(file, EMPTY_STORE).users
  IN \E i \in 1..Len(users) : users[i].telegramUserId = userId

\* What the last operation on the store was and how it ended.
NoCode == hotpCode(0, 0)

NoOp == [op |-> "none", userId |-> "", result |-> "none", compared |-> FALSE,
         code |-> NoCode, tool |-> "", invoked |-> FALSE]

\* withFileLock(filePath, fn) run with no other process at the store:
\* ensureJsonFile creates a missing file, fn reads the document, and what
\* fn wrote replaces the file.
docRead == readJsonFile(ensureJsonFile(totpFile), EMPTY_STORE)

withFileLock(op, userId, code, r) ==
  /\ totpFile' = IF r.wrote THEN wholeFile(r.doc) ELSE ensureJsonFile(totpFile)
  /\ totpLast' = [NoOp EXCEPT !.op = op, !.userId = userId, !.result = r.result,
                              !.compared = r.compared, !.code = code]
  /\ UNCHANGED <<totpCfg, fileVars, routing, codec, lateVars, now, monitorVars>>

\* enrollTotpUser(userId); generateTotpSecret draws the secret.
EnrollTotpUser(userId, secret) ==
  withFileLock("enroll", userId, NoCode, enrollTotpUser(docRead, userId, secret, now))

\* revokeTotpUser(userId)
RevokeTotpUser(userId) ==
  withFileLock("revoke", userId, NoCode, revokeTotpUser(docRead, userId))

\* checkRateLimit(userId, maxAttempts, windowSec)
CheckRateLimit(userId) ==
  withFileLock("check", userId, NoCode,
               checkRateLimit(docRead, userId, totpCfg.maxAttempts, totpCfg.windowSec, now))

\* verifyAndCreateSession(userId, code, sessionDurationSec, maxAttempts, windowSec)
VerifyAndCreateSession(userId, code) ==
  withFileLock("verify", userId, code,
               verifyAndCreateSession(docRead, userId, code, totpCfg.sessionDurationSec,
                                      totpCfg.maxAttempts, totpCfg.windowSec, now))

\* clearSession(userId)
ClearSession(userId) ==
  withFileLock("clear", userId, NoCode, clearSession(docRead, userId))

\* One TOTP time step passes.
TotpTick(limit) ==
  /\ now < TickMs + limit * DEFAULT_TIME_STEP * 1000
  /\ now' = now + DEFAULT_TIME_STEP * 1000
  /\ UNCHANGED <<asideVars, monitorVars>>

\* The codes a user may send at time t: the code of either secret for the
\* current step, the step before, or two steps before.
CodesAt(t, steps) ==
  {hotpCode(secret, timeCounter(t) - back) : secret \in Secrets, back \in steps}

\* --------------------------------------------- the objects of EMPTY_STORE
\* emptyStore is the object EMPTY_STORE of the running process.  Every
\* operation hands { ...EMPTY_STORE } to readJsonFile as the fallback: a
\* new object whose users, sessions and rateLimits are the arrays of
\* EMPTY_STORE themselves, so that what fn does to an array in place
\* (push, splice, a change of an entry found in it) is done to the array
\* of EMPTY_STORE whenever the fallback was returned; an array that fn
\* replaces (store.sessions = store.sessions.filter(...)) is left alone.
\* With a store file that parses the fallback is not returned and the
\* operations are those of the section before.

\* ensureJsonFile(filePath, EMPTY_STORE) with EMPTY_STORE as it is now.
ensuredFile == IF totpFile.exists THEN totpFile ELSE wholeFile(emptyStore)

\* readJsonFile returns the fallback.
fellBack == ~(ensuredFile.exists /\ safeParseJson(ensuredFile))

\* fn of an operation for a user.
fnFor(op, userId, secret, code, doc) ==
  CASE op = "enroll" -> enrollTotpUser(doc, userId, secret, now)
    [] op = "revoke" -> revokeTotpUser(doc, userId)
    [] op = "check" -> checkRateLimit(doc, userId, totpCfg.maxAttempts, totpCfg.windowSec, now)
    [] op = "verify" -> verifyAndCreateSession(doc, userId, code, totpCfg.sessionDurationSec,
                                               totpCfg.maxAttempts, totpCfg.windowSec, now)
    [] OTHER -> clearSession(doc, userId)

\* The arrays of the document that was read, after fn: users after push
\* (enroll) or splice (revoke); rateLimits after push and the changes of
\* the entry (verify), or after the restart of the entry, written or not
\* (check); sessions as before, every operation replacing that array.
inPlace(op, userId, doc, r) ==
  LET idx == findIndex(doc.rateLimits, userId)
  IN [users |-> IF op \in {"enroll", "revoke"} THEN r.doc.users ELSE doc.users,
      sessions |-> doc.sessions,
      rateLimits |->
        CASE op = "verify" -> r.doc.rateLimits
          [] op = "check" /\ idx # 0 ->
               [doc.rateLimits EXCEPT
                  ![idx] = restarted(doc.rateLimits[idx], now, totpCfg.windowSec)]
          [] OTHER -> doc.rateLimits]

\* An operation of the store, run with no other process at the store.
SharedOp(op, userId, secret, code) ==
  LET doc == readJsonFile(ensuredFile, emptyStore)
      r == fnFor(op, userId, secret, code, doc)
  IN /\ totpFile' = IF r.wrote THEN wholeFile(r.doc) ELSE ensuredFile
     /\ totpLast' = [NoOp EXCEPT !.op = op, !.userId = userId, !.result = r.result,
                                 !.compared = r.compared, !.code = code]
     /\ emptyStore' = IF fellBack THEN inPlace(op, userId, doc, r) ELSE emptyStore
     /\ UNCHANGED <<totpCfg, fileVars, routing, codec, gate, beat, http, now, monitorVars>>

\* The store file is left without a document that parses (cut short,
\* emptied, or holding the text null), by something outside the program.
StoreFileDamaged ==
  /\ totpFile.exists /\ safeParseJson(totpFile)
  /\ totpFile' = [totpFile EXCEPT !.written = 0]
  /\ UNCHANGED <<totpCfg, totpLast, fileVars, routing, codec, lateVars, now, monitorVars>>

\* The store file is removed, or the next call names another state
\* directory, where there is none.
StoreFileRemoved ==
  /\ totpFile.exists
  /\ totpFile' = NoFile
  /\ UNCHANGED <<totpCfg, totpLast, fileVars, routing, codec, lateVars, now, monitorVars>>

\* ------------------------------------------------- the store file on disk
\* Two processes run store operations step by step on one state directory.
\* disk.paths holds the file at the store path (StorePath) and the files
\* at the temporary paths, named by the UUIDs drawn so far; lock is the
\* lock of proper-lockfile on the store path: its holder, and whether it
\* has gone stale (no update of its mtime for 30 seconds, which happens
\* only when the holder has died).
Procs == {"p1", "p2"}

StorePath == 0

MaxTmp == 2 * MaxOps

NoLock == [holder |-> "", stale |-> FALSE]

NoProc ==
  [pc |-> "idle", op |-> "none", value |-> EMPTY_STORE, part |-> 0, tmp |-> 0,
   after |-> "none", release |-> FALSE, result |-> "none"]

NoDisk ==
  [paths |-> [n \in 0..MaxTmp |-> NoFile], uuids |-> 0, ops |-> 0, crashes |-> 0,
   reads |-> 0, lastRead |-> NoFile]

StoreOpNames == {"enroll", "revoke", "check", "verify", "clear"}

\* fn of each operation, for user u1, the secret 1 and its current code.
fnOf(op, doc) ==
  CASE op = "enroll" -> enrollTotpUser(doc, "u1", 1, now)
    [] op = "revoke" -> revokeTotpUser(doc, "u1")
    [] op = "check" -> checkRateLimit(doc, "u1", totpCfg.maxAttempts, totpCfg.windowSec, now)
    [] op = "verify" -> verifyAndCreateSession(doc, "u1", hotpCode(1, timeCounter(now)),
                                               totpCfg.sessionDurationSec,
                                               totpCfg.maxAttempts, totpCfg.windowSec, now)
    [] OTHER -> clearSession(doc, "u1")

\* Every call of writeJsonFile using one temporary name.
tmpName_fixed(uuids) == 1

\* `${path.basename(filePath)}.${crypto.randomUUID()}.tmp`: a name no
\* other call has.
tmpName(uuids) == uuids + 1

\* The finally block releasing only after fn has returned.
finallyRelease_onReturn(release, result) == release /\ result # "threw"

\* finally { if (release) await release() }
finallyRelease(release, result) == release

\* A process calls a store operation.
Begin(p, op) ==
  /\ proc[p].pc = "idle"
  /\ disk.ops < MaxOps
  /\ proc' = [proc EXCEPT ![p] = [NoProc EXCEPT !.pc = "access", !.op = op]]
  /\ disk' = [disk EXCEPT !.ops = @ + 1]
  /\ UNCHANGED <<lock, totpVars, routing, codec, lateVars, now, monitorVars>>

\* ensureJsonFile: fs.promises.access(filePath); a missing file is written
\* with the empty store before the lock is taken.
Access(p) ==
  /\ proc[p].pc = "access"
  /\ proc' = IF disk.paths[StorePath].exists
             THEN [proc EXCEPT ![p].pc = "lock"]
             ELSE [proc EXCEPT ![p].pc = "tmp", ![p].value = EMPTY_STORE,
                               ![p].after = "lock"]
  /\ UNCHANGED <<disk, lock, totpVars, routing, codec, lateVars, now, monitorVars>>

\* writeJsonFile: the temporary name is drawn and writeFile creates, or
\* truncates, the file of that name.
TmpOpened(p) ==
  /\ proc[p].pc = "tmp"
  /\ LET tmp == tmpName(disk.uuids)
     IN /\ disk' = [disk EXCEPT !.uuids = @ + 1,
                                !.paths[tmp] = [exists |-> TRUE, written |-> 0,
                                                doc |-> proc[p].value]]
        /\ proc' = [proc EXCEPT ![p].pc = "write", ![p].tmp = tmp, ![p].part = 0]
  /\ UNCHANGED <<lock, totpVars, routing, codec, lateVars, now, monitorVars>>

\* writeFile writes the next part of the document to the temporary file.
WritePart(p) ==
  /\ proc[p].pc = "write"
  /\ disk' = [disk EXCEPT !.paths[proc[p].tmp].written =
                            IF @ < DocParts THEN @ + 1 ELSE @]
  /\ proc' = [proc EXCEPT ![p].part = @ + 1,
                          ![p].pc = IF proc[p].part + 1 = DocParts THEN "rename" ELSE "write"]
  /\ UNCHANGED <<lock, totpVars, routing, codec, lateVars, now, monitorVars>>

\* chmod, then fs.promises.rename(tmp, filePath): the store path gets the
\* temporary file in one step; a temporary file that is gone makes
\* writeJsonFile throw.
Rename(p) ==
  /\ proc[p].pc = "rename"
  /\ LET tmp == proc[p].tmp
         gone == ~disk.paths[tmp].exists
     IN /\ disk' = IF gone THEN disk
                   ELSE [disk EXCEPT !.paths[StorePath] = disk.paths[tmp],
                                     !.paths[tmp] = NoFile]
        /\ proc' = IF gone /\ proc[p].after = "lock"
                   THEN [proc EXCEPT ![p].pc = "idle", ![p].result = "threw"]
                   ELSE IF gone
                   THEN [proc EXCEPT ![p].pc = "release", ![p].result = "threw"]
                   ELSE [proc EXCEPT ![p].pc = proc[p].after]
  /\ UNCHANGED <<lock, totpVars, routing, codec, lateVars, now, monitorVars>>

\* lockfile.lock(filePath, TOTP_STORE_LOCK_OPTIONS) gets the lock: it is
\* free, or stale and taken over.
LockAcquired(p) ==
  /\ proc[p].pc = "lock"
  /\ lock.holder = "" \/ lock.stale
  /\ lock' = [holder |-> p, stale |-> FALSE]
  /\ proc' = [proc EXCEPT ![p].pc = "read", ![p].release = TRUE]
  /\ UNCHANGED <<disk, totpVars, routing, codec, lateVars, now, monitorVars>>

\* lockfile.lock gives up after its retries: it throws, release stays
\* undefined and the finally block has nothing to release.
LockGivenUp(p) ==
  /\ proc[p].pc = "lock"
  /\ lock.holder # "" /\ ~lock.stale
  /\ proc' = [proc EXCEPT ![p].pc = "idle", ![p].result = "ELOCKED"]
  /\ UNCHANGED <<disk, lock, totpVars, routing, codec, lateVars, now, monitorVars>>

\* The lock of a holder that has died is not updated and goes stale.
LockGoesStale ==
  /\ lock.holder # "" /\ ~lock.stale
  /\ proc[lock.holder].pc = "dead"
  /\ lock' = [lock EXCEPT !.stale = TRUE]
  /\ UNCHANGED <<disk, proc, totpVars, routing, codec, lateVars, now, monitorVars>>

\* fn: the store is read and changed in memory; fn then writes the
\* document, returns without writing, or throws.
ReadModify(p) ==
  /\ proc[p].pc = "read"
  /\ LET r == fnOf(proc[p].op, readJsonFile(disk.paths[StorePath], EMPTY_STORE))
     IN proc' = [proc EXCEPT ![p].result = r.result, ![p].value = r.doc,
                             ![p].after = "release",
                             ![p].pc = IF r.wrote THEN "tmp" ELSE "release"]
  /\ UNCHANGED <<disk, lock, totpVars, routing, codec, lateVars, now, monitorVars>>

\* The finally block of withFileLock, after which the operation returns or
\* throws.
Released(p) ==
  /\ proc[p].pc = "release"
  /\ lock' = IF finallyRelease(proc[p].release, proc[p].result) /\ lock.holder = p
             THEN NoLock ELSE lock
  /\ proc' = [proc EXCEPT ![p].pc = "idle", ![p].release = FALSE]
  /\ UNCHANGED <<disk, totpVars, routing, codec, lateVars, now, monitorVars>>

\* The process dies in the middle of an operation.
Crash(p) ==
  /\ proc[p].pc \notin {"idle", "dead"}
  /\ disk.crashes < MaxCrashes
  /\ disk' = [disk EXCEPT !.crashes = @ + 1]
  /\ proc' = [proc EXCEPT ![p].pc = "dead"]
  /\ UNCHANGED <<lock, totpVars, routing, codec, lateVars, now, monitorVars>>

\* A reader (hasValidSession, isUserEnrolled, listTotpUsers) reads the
\* store path, without the lock.
StoreRead ==
  /\ disk.paths[StorePath] # disk.lastRead
  /\ disk' = [disk EXCEPT !.lastRead = disk.paths[StorePath], !.reads = 1]
  /\ UNCHANGED <<lock, proc, totpVars, routing, codec, lateVars, now, monitorVars>>

\* ------------------------------------------------------ the TOTP tool gate
\* normalizeToolName(name): trimmed, lower case, aliases resolved.
normalizeToolName(name) ==
  CASE name = "Exec" -> "exec"
    [] name = "bash" -> "exec"
    [] OTHER -> name

\* expandToolGroups(list): a group stands for its tools, any other entry
\* for the tool of that name.
expandToolGroups(list) ==
  UNION { CASE list[i] = "group:fs" -> {"read", "write", "edit", "apply_patch"}
            [] list[i] = "group:web" -> {"web_search", "web_fetch"}
            [] OTHER -> {normalizeToolName(list[i])}
          : i \in 1..Len(list) }

\* The wrapper lets the call through whatever hasValidSession says.
gateOpen_always(valid) == TRUE

\* if (!valid) throw new Error("TOTP authentication required. ...")
gateOpen(valid) == valid

\* wrapToolsWithTotpGate(tools, {totpConfig, senderId}): for each tool,
\* whether its execute is the wrapper; protectedToolGroups << >> is a list
\* that is empty or not set.
wrapToolsWithTotpGate(tools, protectedGroups) ==
  [i \in 1..Len(tools) |->
     [name |-> tools[i].name, hasExecute |-> tools[i].hasExecute,
      wrapped |-> /\ protectedGroups # << >>
                  /\ normalizeToolName(tools[i].name) \in expandToolGroups(protectedGroups)
                  /\ tools[i].hasExecute]]

\* The tools handed to the gate; "write" comes without an execute.
Tools ==
  << [name |-> "exec", hasExecute |-> TRUE], [name |-> "read", hasExecute |-> TRUE],
     [name |-> "session_status", hasExecute |-> TRUE],
     [name |-> "Exec", hasExecute |-> TRUE],
     [name |-> "web_search", hasExecute |-> TRUE],
     [name |-> "write", hasExecute |-> FALSE] >>

\* The agent calls execute of the i-th tool returned by the gate for
\* sender senderId.
ToolExecute(i, senderId) ==
  LET tool == wrapToolsWithTotpGate(Tools, totpCfg.protectedToolGroups)[i]
      valid == hasValidSession(totpFile, senderId, now)
      passes == ~tool.wrapped \/ gateOpen(valid)
  IN /\ tool.hasExecute
     /\ totpLast' = [NoOp EXCEPT !.op = "execute", !.userId = senderId,
                                 !.tool = tool.name,
                                 !.result = IF passes THEN "returned" ELSE "threw",
                                 !.invoked = passes]
     /\ UNCHANGED <<totpFile, totpCfg, fileVars, routing, codec, lateVars, now, monitorVars>>

\* ------------------------------------------------------- the TOTP DM gate
\* checkTotpGate awaits isUserEnrolled, hasValidSession, checkRateLimit and
\* verifyAndCreateSession one after the other; calls in progress at the
\* same time interleave between these awaits.  A message is a six digit
\* code (CODE_PATTERN matches once trimmed) or another text.
GateCalls == {"c1", "c2", "c3"}

NoCall == [pc |-> "idle", userId |-> "", isCode |-> FALSE, code |-> NoCode,
           result |-> "none"]

\* fails counts the codes compared and refused in the window that began
\* at window, streak those since the last code that was accepted.
NoGate == [calls |-> [c \in GateCalls |-> NoCall], started |-> 0,
           fails |-> 0, streak |-> 0, window |-> 0]

\* What a step of a call leaves: the store file and the calls.
GateStep(file, g) ==
  /\ totpFile' = file
  /\ gate' = g
  /\ UNCHANGED <<totpCfg, totpLast, fileVars, routing, codec, emptyStore, beat, http,
                 now, monitorVars>>

returned(c, action) == [gate EXCEPT !.calls[c].pc = "done", !.calls[c].result = action]

\* withFileLock around fn, as it leaves the store file.
fileAfter(r) == IF r.wrote THEN wholeFile(r.doc) ELSE ensureJsonFile(totpFile)

\* checkTotpGate({telegramUserId, messageText, totpConfig}) is called.
GateCalled(c, userId, isCode, code) ==
  /\ gate.calls[c].pc \in {"idle", "done"}
  /\ gate.started < MaxGateCalls
  /\ GateStep(totpFile,
              [gate EXCEPT !.calls[c] = [pc |-> "called", userId |-> userId,
                                         isCode |-> isCode, code |-> code,
                                         result |-> "none"],
                           !.started = @ + 1])

\* const enrolled = await isUserEnrolled(telegramUserId)
GateEnrolled(c) ==
  /\ gate.calls[c].pc = "called"
  /\ GateStep(totpFile,
              IF isUserEnrolled(totpFile, gate.calls[c].userId)
              THEN [gate EXCEPT !.calls[c].pc = "enrolled"]
              ELSE returned(c, "pass"))

\* No message is taken for a code.
looksLikeCode_never(isCode) == FALSE

\* CODE_PATTERN.test(trimmed)
looksLikeCode(isCode) == isCode

\* const valid = await hasValidSession(telegramUserId), and the test of
\* the message that follows without an await.
GateSession(c) ==
  /\ gate.calls[c].pc = "enrolled"
  /\ GateStep(totpFile,
              IF hasValidSession(totpFile, gate.calls[c].userId, now)
              THEN returned(c, "pass")
              ELSE IF looksLikeCode(gate.calls[c].isCode)
              THEN [gate EXCEPT !.calls[c].pc = "code"]
              ELSE returned(c, "prompt"))

\* const allowed = await checkRateLimit(telegramUserId, maxAttempts, window)
GateRateLimit(c) ==
  /\ gate.calls[c].pc = "code"
  /\ LET r == checkRateLimit(docRead, gate.calls[c].userId, totpCfg.maxAttempts,
                             totpCfg.windowSec, now)
     IN GateStep(fileAfter(r),
                 IF r.result = "true"
                 THEN [gate EXCEPT !.calls[c].pc = "allowed"]
                 ELSE returned(c, "rate_limited"))

\* The window of the rate limit entry of a user in a document, 0 for none.
windowOf(doc, userId) ==
  IF findIndex(doc.rateLimits, userId) = 0 THEN 0
  ELSE doc.rateLimits[findIndex(doc.rateLimits, userId)].windowStart

\* const verified = await verifyAndCreateSession(...)
GateVerify(c) ==
  /\ gate.calls[c].pc = "allowed"
  /\ LET r == verifyAndCreateSession(docRead, gate.calls[c].userId, gate.calls[c].code,
                                     totpCfg.sessionDurationSec, totpCfg.maxAttempts,
                                     totpCfg.windowSec, now)
         g == returned(c, IF r.result = "true" THEN "verified" ELSE "rejected")
         w == windowOf(r.doc, gate.calls[c].userId)
         refused == r.compared /\ r.result = "false"
         accepted_ == r.compared /\ r.result = "true"
         before == IF w = gate.window THEN gate.fails ELSE 0
         run == IF w = gate.window THEN gate.streak ELSE 0
     IN GateStep(fileAfter(r),
                 [g EXCEPT !.window = w,
                           !.fails = IF refused THEN before + 1 ELSE before,
                           !.streak = IF refused THEN run + 1
                                      ELSE IF accepted_ THEN 0 ELSE run])

\* ------------------------------------------------- the plugin HTTP routes
\* registry.httpRoutes is the list of the registered entries in the order
\* of registration; an entry is one object, known by the number of the
\* registerPluginHttpRoute call that made it.  regs holds, for every call
\* so far, the path it was given (as normalizePluginHttpPath returned it,
\* NoPath for none) and the entry its unregister function holds, 0 for the
\* function that does nothing.  A token is a sequence of characters; the
\* characters are two ASCII letters and U+00E9, which is one UTF-16 code
\* unit and two bytes of UTF-8.
NoPath == ""

Paths == {NoPath, "/a", "/b"}

TokenChars == {"a", "b", "U+00E9"}

NoToken == << >>

NoHeader == [scheme |-> "none", token |-> NoToken]

NoRequest ==
  [op |-> "none", handle |-> 0, path |-> NoPath, header |-> NoHeader,
   configured |-> NoToken, status |-> 0, invoked |-> FALSE, threw |-> FALSE]

\* No plugin route is registered and no request was made.
NoHttp == [routes |-> << >>, regs |-> << >>, ops |-> 0, last |-> NoRequest]

\* Buffer.from(a): the UTF-8 bytes of a string.
RECURSIVE utf8(_)
utf8(a) ==
  IF a = << >> THEN << >>
  ELSE (CASE Head(a) = "a" -> << 97 >>
          [] Head(a) = "b" -> << 98 >>
          [] OTHER -> << 195, 169 >>) \o utf8(Tail(a))

\* timingSafeEqual(x, y): a RangeError when the byte lengths differ.
timingSafeEqual(x, y) ==
  IF Len(x) # Len(y) THEN "threw" ELSE IF x = y THEN "true" ELSE "false"

\* safeEqual(a, b): a.length counts UTF-16 code units.
safeEqual(a, b) ==
  IF Len(a) # Len(b) THEN "false" ELSE timingSafeEqual(utf8(a), utf8(b))

\* The guard letting every request with a bearer token through.
tokenAccepted_always(token, configured) == "true"

\* resolvedAuth.token && safeEqual(token, resolvedAuth.token)
tokenAccepted(token, configured) ==
  IF configured = NoToken THEN "false" ELSE safeEqual(token, configured)

\* The handler made by createAuthGuardedHandler, called with a request
\* that carries the Authorization header, the gateway token of the
\* configuration being configured (NoToken for none).
createAuthGuardedHandler(header, configured) ==
  LET token == IF header.scheme = "Bearer" THEN header.token ELSE NoToken
      allowed == tokenAccepted(token, configured)
  IN IF token = NoToken
     THEN [status |-> 401, invoked |-> FALSE, threw |-> FALSE]
     ELSE IF allowed = "threw"
     THEN [status |-> 0, invoked |-> FALSE, threw |-> TRUE]
     ELSE IF allowed = "false"
     THEN [status |-> 403, invoked |-> FALSE, threw |-> FALSE]
     ELSE [status |-> 200, invoked |-> TRUE, threw |-> FALSE]

\* No path counts as registered.
alreadyRegistered_never(routes, path) == FALSE

\* routes.some((entry) => entry.path === normalizedPath)
alreadyRegistered(routes, path) == \E i \in 1..Len(routes) : routes[i].path = path

\* routes.indexOf(entry), 0 for none.
routeIndexOf(routes, entry) ==
  IF \E i \in 1..Len(routes) : routes[i].id = entry
  THEN CHOOSE i \in 1..Len(routes) : routes[i].id = entry
  ELSE 0

\* registerPluginHttpRoute({path, handler, requireAuth, registry}) is
\* called.
RegisterPluginHttpRoute(normalizedPath, requireAuth) ==
  /\ http.ops < MaxHttpOps
  /\ Len(http.regs) < MaxRegs
  /\ LET call == Len(http.regs) + 1
         added == normalizedPath # NoPath /\ ~alreadyRegistered(http.routes, normalizedPath)
         entry == [path |-> normalizedPath, id |-> call, requireAuth |-> requireAuth]
     IN http' = [routes |-> IF added THEN Append(http.routes, entry) ELSE http.routes,
                 regs |-> Append(http.regs, [path |-> normalizedPath,
                                             entry |-> IF added THEN call ELSE 0]),
                 ops |-> http.ops + 1,
                 last |-> [NoRequest EXCEPT !.op = "register", !.handle = call,
                                            !.path = normalizedPath]]
  /\ UNCHANGED <<totpVars, fileVars, routing, codec, gate, emptyStore, beat, now, monitorVars>>

\* The function returned by call number call of registerPluginHttpRoute
\* is called.
Unregister(call) ==
  /\ http.ops < MaxHttpOps
  /\ call \in 1..Len(http.regs)
  /\ LET index == routeIndexOf(http.routes, http.regs[call].entry)
     IN http' = [http EXCEPT
                   !.routes = IF index > 0 THEN splice(@, index) ELSE @,
                   !.ops = @ + 1,
                   !.last = [NoRequest EXCEPT !.op = "unregister", !.handle = call,
                                              !.path = http.regs[call].path]]
  /\ UNCHANGED <<totpVars, fileVars, routing, codec, gate, emptyStore, beat, now, monitorVars>>

\* The gateway hands a request to the handler of the i-th route.
Request(i, header, configured) ==
  /\ http.ops < MaxHttpOps
  /\ i \in 1..Len(http.routes)
  /\ LET r == IF http.routes[i].requireAuth
              THEN createAuthGuardedHandler(header, configured)
              ELSE [status |-> 200, invoked |-> TRUE, threw |-> FALSE]
     IN http' = [http EXCEPT
                   !.ops = @ + 1,
                   !.last = [op |-> "request", handle |-> http.routes[i].id,
                             path |-> http.routes[i].path, header |-> header,
                             configured |-> configured, status |-> r.status,
                             invoked |-> r.invoked, threw |-> r.threw]]
  /\ UNCHANGED <<totpVars, fileVars, routing, codec, gate, emptyStore, beat, now, monitorVars>>

\* --------------------------------------------------------- the base32 codec
\* A string is a sequence of characters, a buffer a sequence of bytes.
BASE32_ALPHABET ==
  << "A", "B", "C", "D", "E", "F", "G", "H", "I", "J", "K", "L", "M", "N", "O", "P",
     "Q", "R", "S", "T", "U", "V", "W", "X", "Y", "Z", "2", "3", "4", "5", "6", "7" >>

LowerCase ==
  << "a", "b", "c", "d", "e", "f", "g", "h", "i", "j", "k", "l", "m", "n", "o", "p",
     "q", "r", "s", "t", "u", "v", "w", "x", "y", "z" >>

\* The characters /\s/ matches, of which two are used.
WhiteSpace == {" ", "\n"}

\* BASE32_ALPHABET.indexOf(char), from 0, -1 for none.
indexOf(char) ==
  IF \E i \in 1..32 : BASE32_ALPHABET[i] = char
  THEN (CHOOSE i \in 1..32 : BASE32_ALPHABET[i] = char) - 1
  ELSE 0 - 1

Pow2(n) == 2 ^ n

\* A 32 bit integer is kept as its two 16 bit halves.
Half == 65536

Zero32 == [hi |-> 0, lo |-> 0]

\* value << n, for n < 16
shl(value, n) ==
  [hi |-> (value.hi * Pow2(n) + (value.lo * Pow2(n)) \div Half) % Half,
   lo |-> (value.lo * Pow2(n)) % Half]

\* value >>> n, for n < 16
shr(value, n) ==
  [hi |-> value.hi \div Pow2(n),
   lo |-> (value.hi % Pow2(n)) * Pow2(16 - n) + value.lo \div Pow2(n)]

\* value | x, for x below the lowest bit set in value
bitOr(value, x) == [value EXCEPT !.lo = @ + x]

\* value & mask, for a mask 2^k - 1 of at most 16 bits
bitAnd(value, mask) == value.lo % (mask + 1)

\* The characters encodeBase32 puts out while bits >= 5.
RECURSIVE drain(_, _)
drain(value, bits) ==
  IF bits >= 5
  THEN << BASE32_ALPHABET[bitAnd(shr(value, bits - 5), 31) + 1] >> \o drain(value, bits - 5)
  ELSE << >>

\* The loop of encodeBase32 over the bytes from index i on.
RECURSIVE encodeFrom(_, _, _, _)
encodeFrom(buf, i, value, bits) ==
  IF i > Len(buf)
  THEN IF bits > 0 THEN << BASE32_ALPHABET[bitAnd(shl(value, 5 - bits), 31) + 1] >> ELSE << >>
  ELSE LET v == bitOr(shl(value, 8), buf[i])
           b == bits + 8
       IN drain(v, b) \o encodeFrom(buf, i + 1, v, b % 5)

\* encodeBase32(buf)
encodeBase32(buf) == encodeFrom(buf, 1, Zero32, 0)

\* String.prototype.toUpperCase on one character: the letter in upper
\* case; U+00DF (sharp s) becomes "SS" and U+017F (long s) becomes "S";
\* any other character stays.
toUpperCase(char) ==
  IF \E i \in 1..26 : LowerCase[i] = char
  THEN << BASE32_ALPHABET[CHOOSE i \in 1..26 : LowerCase[i] = char] >>
  ELSE IF char = "U+00DF" THEN << "S", "S" >>
  ELSE IF char = "U+017F" THEN << "S" >>
  ELSE << char >>

RECURSIVE upperCased(_)
upperCased(str) ==
  IF str = << >> THEN << >> ELSE toUpperCase(Head(str)) \o upperCased(Tail(str))

\* str.replace(/[=\s]/g, "").toUpperCase()
cleaned(str) == upperCased(SelectSeq(str, LAMBDA c : c # "=" /\ c \notin WhiteSpace))

\* The loop of decodeBase32 over the cleaned characters from index i on.
RECURSIVE decodeFrom(_, _, _, _, _)
decodeFrom(chars, i, value, bits, bytes) ==
  IF i > Len(chars) THEN [threw |-> FALSE, bytes |-> bytes]
  ELSE IF indexOf(chars[i]) = 0 - 1 THEN [threw |-> TRUE, bytes |-> << >>]
  ELSE LET v == bitOr(shl(value, 5), indexOf(chars[i]))
           b == bits + 5
       IN IF b >= 8
          THEN decodeFrom(chars, i + 1, v, b - 8, Append(bytes, bitAnd(shr(v, b - 8), 255)))
          ELSE decodeFrom(chars, i + 1, v, b, bytes)

\* decodeBase32(str): the buffer, or the throw of "invalid base32
\* character".
decodeBase32(str) == decodeFrom(cleaned(str), 1, Zero32, 0, << >>)

NoCodec ==
  [phase |-> "idle", buf |-> << >>, encoded |-> << >>, form |-> "", str |-> << >>,
   decoded |-> [threw |-> FALSE, bytes |-> << >>]]

\* encodeBase32 is called on the buffer.
Encode ==
  /\ codec.phase = "idle"
  /\ codec' = [codec EXCEPT !.phase = "encoded", !.encoded = encodeBase32(codec.buf)]
  /\ UNCHANGED <<totpVars, fileVars, routing, lateVars, now, monitorVars>>

\* decodeBase32 is called on str, a form of the string encoded last.
Decode(form, str) ==
  /\ codec.phase \in {"encoded", "decoded"}
  /\ codec' = [codec EXCEPT !.phase = "decoded", !.form = form, !.str = str,
                            !.decoded = decodeBase32(str)]
  /\ UNCHANGED <<totpVars, fileVars, routing, lateVars, now, monitorVars>>

\* ------------------------------------------------------- route resolution
\* A binding is a match predicate of one kind with its value, and the
\* agent it routes to; a message brings its channel, account and peer and,
\* when it has them, its parent peer, guild and team ("" for none).
NoRoute == [asked |-> FALSE, agentId |-> "", matchedBy |-> 0]

\* Whether binding b matches message msg at priority tier: 1 exact peer,
\* 2 the peer binding of the parent peer, 3 guild, 4 team, 5 account,
\* 6 channel.
tierMatches(b, tier, msg) ==
  CASE tier = 1 -> b.kind = "peer" /\ b.value = msg.peer
    [] tier = 2 -> b.kind = "peer" /\ msg.parentPeer # "" /\ b.value = msg.parentPeer
    [] tier = 3 -> b.kind = "guild" /\ msg.guild # "" /\ b.value = msg.guild
    [] tier = 4 -> b.kind = "team" /\ msg.team # "" /\ b.value = msg.team
    [] tier = 5 -> b.kind = "account" /\ b.value = msg.accountId
    [] OTHER -> b.kind = "channel" /\ b.value = msg.channel

\* The first binding of the list that matches at the tier, 0 for none.
firstMatch(bindings, tier, msg) ==
  IF \E i \in 1..Len(bindings) : tierMatches(bindings[i], tier, msg)
  THEN CHOOSE i \in 1..Len(bindings) :
         /\ tierMatches(bindings[i], tier, msg)
         /\ \A j \in 1..(i - 1) : ~tierMatches(bindings[j], tier, msg)
  ELSE 0

\* The tiers tried with the channel wildcard first.
tierOrder_channelFirst == << 6, 1, 2, 3, 4, 5 >>

\* The tiers in the order they are tried.
tierOrder == << 1, 2, 3, 4, 5, 6 >>

\* The resolution from the k-th tier of the order on: the first tier with
\* a match decides, the default agent when none has one.
RECURSIVE resolveFrom(_, _, _, _)
resolveFrom(bindings, defaultAgent, msg, k) ==
  IF k > Len(tierOrder)
  THEN [asked |-> TRUE, agentId |-> defaultAgent, matchedBy |-> 7]
  ELSE IF firstMatch(bindings, tierOrder[k], msg) # 0
  THEN [asked |-> TRUE,
        agentId |-> bindings[firstMatch(bindings, tierOrder[k], msg)].agentId,
        matchedBy |-> tierOrder[k]]
  ELSE resolveFrom(bindings, defaultAgent, msg, k + 1)

\* resolveAgentRoute: the agent of a message under the bindings.
resolveAgentRoute(bindings, defaultAgent, msg) ==
  resolveFrom(bindings, defaultAgent, msg, 1)

NoRouting ==
  [bindings |-> << >>, defaultAgent |-> "agentC",
   msg |-> [channel |-> "", accountId |-> "", peer |-> "", parentPeer |-> "",
            guild |-> "", team |-> ""],
   last |-> NoRoute]

\* A message is resolved.
Resolve(msg) ==
  /\ routing' = [routing EXCEPT !.msg = msg,
                                !.last = resolveAgentRoute(routing.bindings,
                                                           routing.defaultAgent, msg)]
  /\ UNCHANGED <<totpVars, fileVars, codec, lateVars, now, monitorVars>>

\* ---------------------------------------------------------- specifications
\* Nothing has touched the TOTP store, the store file, the routes or the
\* codec.
DefaultTotpCfg ==
  [protectedToolGroups |-> << >>, sessionDurationSec |-> 60, maxAttempts |-> 2,
   windowSec |-> 30]

InitTotpIdle ==
  /\ totpFile = NoFile
  /\ totpCfg = DefaultTotpCfg
  /\ totpLast = NoOp

InitFileIdle ==
  /\ disk = NoDisk
  /\ lock = NoLock
  /\ proc = [p \in Procs |-> NoProc]

InitRoutingIdle == routing = NoRouting

InitCodecIdle == codec = NoCodec

InitLateIdle ==
  /\ gate = NoGate
  /\ emptyStore = EMPTY_STORE
  /\ beat = NoBeat
  /\ http = NoHttp

InitAside ==
  /\ InitTotpIdle
  /\ InitFileIdle
  /\ InitRoutingIdle
  /\ InitCodecIdle
  /\ InitLateIdle

InitMonitorQuiet ==
  /\ aborted = FALSE
  /\ sigintStop = FALSE
  /\ queueSize = 0
  /\ next = "none"
  /\ reconnectAttempts = 0
  /\ lastMessageAt = null
  /\ lastInboundMsg = NoMsg
  /\ lastError = "none"
  /\ backoffAttempts = 0
  /\ reason = NoReason
  /\ pendingBatches = [c \in Cycles |-> [s \in Senders |-> NoBatch]]
  /\ batchTimers = [c \in Cycles |-> [s \in Senders |-> 0]]
  /\ inflight = {}
  /\ msgCount = 0
  /\ accepted = << >>
  /\ flushes = << >>
  /\ linked = {}
  /\ lastBusy = [s \in Senders |-> 0]
  /\ busyIds = {}
  /\ owed = {}
  /\ dlv = NoDelivery

InitMonitorRest ==
  /\ InitMonitorQuiet
  /\ lastHb = NoHeartbeat

InitRest ==
  /\ InitMonitorRest
  /\ InitAside

\* An empty session store and an idle limit of one minute.
InitSessions ==
  /\ store = [s \in Senders |-> NoEntry]
  /\ sessionCfg = [idleMinutes |-> 1, heartbeatIdleMinutes |-> undefined]

InitCommon ==
  /\ InitRest
  /\ InitSessions
  /\ now = TickMs
  /\ recentlySent = << >>

\* The connection loop from the call of monitorWebProvider on, with the
\* command queue idle.
Init ==
  /\ InitCommon
  /\ keepAlive \in BOOLEAN
  /\ maxAttempts \in 0..MaxAttemptsCfg
  /\ heartbeatSeconds = 60
  /\ replyHeartbeatMinutes = DEFAULT_REPLY_HEARTBEAT_MINUTES
  /\ cfg = [timestampPrefix |-> TRUE, messagePrefix |-> "[warelay]", responsePrefix |-> ""]
  /\ pc = "start"
  /\ connects = 0
  /\ startedAt = 0
  /\ timers = {}
  /\ ipcServer = FALSE
  /\ listenerOpen = FALSE
  /\ listenerSince = 0

Next ==
  \/ Start
  \/ Connected
  \/ \E b \in BOOLEAN : ListenerClosed(b)
  \/ Abort
  \/ Sigint
  \/ CloseFinished
  \/ SleepDone
  \/ Tick(LoopTicks)
  \/ \E t \in timers : HeartbeatFires(t)
  \/ \E t \in timers : WatchdogFires(t)
  \/ (msgCount < LoopMsgs /\ OnMessage("s1", "a"))
  \/ AgentRepliesAny

Spec == Init /\ [][Next]_vars

\* A connection on which no message arrives for a long time: the channel
\* does not close by itself, the listener reports a close once
\* closeListener has closed it, and setting up, closing and the backoff
\* take less than a minute.
InitWatchdog ==
  /\ InitCommon
  /\ keepAlive = TRUE
  /\ maxAttempts = 0
  /\ heartbeatSeconds = 60
  /\ replyHeartbeatMinutes = DEFAULT_REPLY_HEARTBEAT_MINUTES
  /\ cfg = [timestampPrefix |-> TRUE, messagePrefix |-> "[warelay]", responsePrefix |-> ""]
  /\ pc = "start"
  /\ connects = 0
  /\ startedAt = 0
  /\ timers = {}
  /\ ipcServer = FALSE
  /\ listenerOpen = FALSE
  /\ listenerSince = 0

NextWatchdog ==
  \/ Start
  \/ Connected
  \/ (~listenerOpen /\ ListenerClosed(FALSE))
  \/ CloseFinished
  \/ SleepDone
  \/ (pc = "connected" /\ Tick(MaxTicks))
  \/ \E t \in timers : HeartbeatFires(t)
  \/ \E t \in timers : WatchdogFires(t)
  \/ ReplyHeartbeatAny
  \/ (msgCount < LoopMsgs /\ OnMessage("s1", "a"))
  \/ AgentRepliesAny

SpecWatchdog == InitWatchdog /\ [][NextWatchdog]_vars

\* The batcher of the first connection, right after it was set up, with
\* the command queue filling and draining.
InitBatch ==
  /\ InitCommon
  /\ keepAlive = TRUE
  /\ maxAttempts = 0
  /\ heartbeatSeconds = 60
  /\ replyHeartbeatMinutes = null
  /\ cfg = [timestampPrefix |-> TRUE, messagePrefix |-> "[warelay]", responsePrefix |-> ""]
  /\ pc = "connected"
  /\ connects = 1
  /\ startedAt = TickMs
  /\ timers = createdTimers(1, TickMs)
  /\ ipcServer = TRUE
  /\ listenerOpen = TRUE
  /\ listenerSince = TickMs

\* The inbound events of the channel: sender and body.
Inbound == { <<"s1", "a">>, <<"s1", "b">>, <<"s2", "a">> }

NextBatch ==
  \/ \E m \in Inbound : OnMessage(m[1], m[2])
  \/ \E c \in Cycles, s \in Senders : BatchTimerFires(c, s)
  \/ AgentRepliesAny
  \/ \E q \in 0..MaxQueue : QueueChanges(q)

SpecBatch == InitBatch /\ [][NextBatch]_vars

\* Timers that are armed fire.
SpecBatchFair ==
  /\ SpecBatch
  /\ \A c \in Cycles, s \in Senders : WF_vars(BatchTimerFires(c, s))

\* The echo guard on one open connection, for the default prefixes and for
\* a configuration without prefixes (timestampPrefix: false and an empty
\* messagePrefix, the default of buildLine when allowFrom is set).
Cfgs == { [timestampPrefix |-> TRUE, messagePrefix |-> "[warelay]", responsePrefix |-> ""],
          [timestampPrefix |-> FALSE, messagePrefix |-> "", responsePrefix |-> ""] }

InitEcho ==
  /\ InitCommon
  /\ keepAlive = TRUE
  /\ maxAttempts = 0
  /\ heartbeatSeconds = 60
  /\ replyHeartbeatMinutes = null
  /\ cfg \in Cfgs
  /\ pc = "connected"
  /\ connects = 1
  /\ startedAt = TickMs
  /\ timers = createdTimers(1, TickMs)
  /\ ipcServer = TRUE
  /\ listenerOpen = TRUE
  /\ listenerSince = TickMs

EchoInbound == { <<"s1", "a">>, <<"s1", "b">> }

NextEcho ==
  \/ \E m \in EchoInbound : OnMessage(m[1], m[2])
  \/ \E c \in Cycles, s \in Senders : BatchTimerFires(c, s)
  \/ AgentRepliesAny
  \/ \E q \in 0..MaxQueue : QueueChanges(q)

SpecEcho == InitEcho /\ [][NextEcho]_vars

\* The echo guard after many replies: the second connection has just been
\* set up, and recentlySent, which outlives the connections, holds the
\* combined bodies of n one-message batches answered in the n minutes
\* before, oldest first (the reply texts have been echoed and removed).
GuardFill == {98, 99, 100}

GuardStart == 101 * TickMs

InitGuard ==
  /\ InitRest
  /\ InitSessions
  /\ now = GuardStart
  /\ \E n \in GuardFill :
        recentlySent = [k \in 1..n |->
           << [ts |-> GuardStart - (n + 1 - k) * TickMs, prefix |-> "[warelay]", body |-> "a"] >>]
  /\ keepAlive = TRUE
  /\ maxAttempts = 0
  /\ heartbeatSeconds = 60
  /\ replyHeartbeatMinutes = null
  /\ cfg = [timestampPrefix |-> TRUE, messagePrefix |-> "[warelay]", responsePrefix |-> ""]
  /\ pc = "connected"
  /\ connects = 2
  /\ startedAt = GuardStart
  /\ timers = createdTimers(2, GuardStart)
  /\ ipcServer = TRUE
  /\ listenerOpen = TRUE
  /\ listenerSince = GuardStart

IpcMessages == { PlainText(""), PlainText("b"), Lines(2) }

NextGuard ==
  \/ \E m \in EchoInbound : OnMessage(m[1], m[2])
  \/ AgentRepliesAny
  \/ \E m \in IpcMessages, ok \in BOOLEAN : IpcSend(m, ok)

SpecGuard == InitGuard /\ [][NextGuard]_vars

\* The reply heartbeat of one open connection, ticking every minute, next
\* to inbound messages, IPC sends and calls of runWebHeartbeatOnce from
\* outside; the store starts empty or with sessions of earlier exchanges.
\* The connection heartbeat, a log record every ten minutes, is not due
\* within the time looked at.
HbStores ==
  { [s \in Senders |-> NoEntry],
    [s1 |-> [exists |-> TRUE, sessionId |-> 5, updatedAt |-> TickMs], s2 |-> NoEntry],
    [s1 |-> [exists |-> TRUE, sessionId |-> 5, updatedAt |-> TickMs],
     s2 |-> [exists |-> TRUE, sessionId |-> 6, updatedAt |-> 0]] }

InitHeartbeat ==
  /\ InitRest
  /\ now = TickMs
  /\ recentlySent = << >>
  /\ store \in HbStores
  /\ sessionCfg = [idleMinutes |-> 1, heartbeatIdleMinutes |-> undefined]
  /\ keepAlive = TRUE
  /\ maxAttempts = 0
  /\ heartbeatSeconds = 600
  /\ replyHeartbeatMinutes = 1
  /\ cfg = [timestampPrefix |-> TRUE, messagePrefix |-> "[warelay]", responsePrefix |-> ""]
  /\ pc = "connected"
  /\ connects = 1
  /\ startedAt = TickMs
  /\ timers = createdTimers(1, TickMs)
  /\ ipcServer = TRUE
  /\ listenerOpen = TRUE
  /\ listenerSince = TickMs

NextHeartbeat ==
  \/ (msgCount < LoopMsgs /\ OnMessage("s1", "a"))
  \/ AgentRepliesAny
  \/ \E q \in 0..MaxQueue : QueueChanges(q)
  \/ Tick(HbTicks)
  \/ \E t \in timers : WatchdogFires(t)
  \/ ReplyHeartbeatAny
  \/ \E ok \in BOOLEAN : IpcSend(PlainText("a"), ok)
  \/ \E sid \in {null, 7}, reply \in HbReplies :
        \E touched \in BOOLEAN, sendOk \in BOOLEAN, viaIpc \in BOOLEAN :
           HeartbeatOnceCalled("s1", sid, reply, touched, sendOk, viaIpc)

SpecHeartbeat == InitHeartbeat /\ [][NextHeartbeat]_vars

\* getSessionSnapshot on its own: any configured idle limits, sessions
\* that are missing, a minute old, or refreshed as time passes.
IdleOptions == 0..2

HbIdleOptions == {undefined, 0, 2}

InitSession ==
  /\ InitRest
  /\ now = TickMs
  /\ recentlySent = << >>
  /\ store \in HbStores
  /\ sessionCfg \in [idleMinutes : IdleOptions, heartbeatIdleMinutes : HbIdleOptions]
  /\ keepAlive = TRUE
  /\ maxAttempts = 0
  /\ heartbeatSeconds = 60
  /\ replyHeartbeatMinutes = null
  /\ cfg = [timestampPrefix |-> TRUE, messagePrefix |-> "[warelay]", responsePrefix |-> ""]
  /\ pc = "start"
  /\ connects = 0
  /\ startedAt = 0
  /\ timers = {}
  /\ ipcServer = FALSE
  /\ listenerOpen = FALSE
  /\ listenerSince = 0

NextSession ==
  \/ Tick(SessionTicks)
  \/ \E s \in Senders, h \in BOOLEAN : SnapshotTaken(s, h)
  \/ \E s \in Senders : SessionTouched(s)

SpecSession == InitSession /\ [][NextSession]_vars

\* The delivery of the replies to one flushed message.  The reply texts:
\* none, "hello world", a line of exactly WEB_TEXT_LIMIT characters, one
\* of a character more, a line of two limits and a character, two lines,
\* a lone line break.
DeliveryTexts ==
  { [text |-> PlainText(""), chars |-> << >>],
    [text |-> PlainText("hello world"), chars |-> << 11 >>],
    [text |-> PlainText("exact"), chars |-> << WEB_TEXT_LIMIT >>],
    [text |-> PlainText("over"), chars |-> << WEB_TEXT_LIMIT, 1 >>],
    [text |-> PlainText("long"), chars |-> << WEB_TEXT_LIMIT, WEB_TEXT_LIMIT, 1 >>],
    [text |-> PlainText("two lines"), chars |-> << 5, 0, 5 >>],
    [text |-> PlainText("line break"), chars |-> << 0 >>] }

MediaLists == { << >>, << "a.png" >>, << "a.png", "b.png" >> }

Payloads ==
  { [text |-> t.text, chars |-> t.chars, media |-> m] : t \in DeliveryTexts, m \in MediaLists }

\* The payloads of the reply lists with two entries.
PairPayloads ==
  { [text |-> PlainText("hello world"), chars |-> << 11 >>, media |-> << >>],
    [text |-> PlainText("hello world"), chars |-> << 11 >>, media |-> << "a.png" >>] }

DeliveryReplyLists ==
  { << >> } \cup { << p >> : p \in Payloads }
            \cup { << p, q >> : p \in PairPayloads, q \in PairPayloads }

NextDeliver ==
  \/ (msgCount < LoopMsgs /\ OnMessage("s1", "a"))
  \/ \E i \in inflight, rl \in DeliveryReplyLists : RepliesArrive(i, rl)
  \/ \E loadOk \in BOOLEAN, sendOk \in BOOLEAN, replyOk \in BOOLEAN :
        MediaStep(loadOk, sendOk, replyOk)
  \/ \E replyOk \in BOOLEAN : TextStep(replyOk)
  \/ PayloadReturns

SpecDeliver == InitBatch /\ [][NextDeliver]_vars

\* The monitor before monitorWebProvider is called: the state in which
\* the TOTP store, the routes and the codec are looked at on their own.
InitMonitorIdle ==
  /\ InitMonitorRest
  /\ InitSessions
  /\ recentlySent = << >>
  /\ keepAlive = TRUE
  /\ maxAttempts = 0
  /\ heartbeatSeconds = 60
  /\ replyHeartbeatMinutes = null
  /\ cfg = [timestampPrefix |-> TRUE, messagePrefix |-> "[warelay]", responsePrefix |-> ""]
  /\ pc = "start"
  /\ connects = 0
  /\ startedAt = 0
  /\ timers = {}
  /\ ipcServer = FALSE
  /\ listenerOpen = FALSE
  /\ listenerSince = 0

\* The TOTP store from a state directory without a store file, with one
\* user whose operations are called one after the other, for sessions of
\* no or two time steps, up to MaxTotpAttempts attempts and a window of
\* one time step.
TotpCfgs ==
  { [DefaultTotpCfg EXCEPT !.sessionDurationSec = d, !.maxAttempts = m] :
      d \in {0, 60}, m \in 0..MaxTotpAttempts }

InitTotp ==
  /\ InitMonitorIdle
  /\ now = TickMs
  /\ totpFile = NoFile
  /\ totpCfg \in TotpCfgs
  /\ totpLast = NoOp
  /\ InitFileIdle
  /\ InitLateIdle
  /\ InitRoutingIdle
  /\ InitCodecIdle

NextTotp ==
  \/ \E secret \in Secrets : EnrollTotpUser("u1", secret)
  \/ RevokeTotpUser("u1")
  \/ CheckRateLimit("u1")
  \/ \E code \in CodesAt(now, 0..2) : VerifyAndCreateSession("u1", code)
  \/ ClearSession("u1")
  \/ TotpTick(TotpTicks)

SpecTotp == InitTotp /\ [][NextTotp]_vars

\* The same store with two users, who send the code of a secret for the
\* current time step, within EnrollTicks time steps.
InitEnroll ==
  /\ InitMonitorIdle
  /\ now = TickMs
  /\ totpFile = NoFile
  /\ totpCfg = [DefaultTotpCfg EXCEPT !.maxAttempts = 1]
  /\ totpLast = NoOp
  /\ InitFileIdle
  /\ InitLateIdle
  /\ InitRoutingIdle
  /\ InitCodecIdle

NextEnroll ==
  \/ \E u \in Users, secret \in Secrets : EnrollTotpUser(u, secret)
  \/ \E u \in Users : RevokeTotpUser(u)
  \/ \E u \in Users : CheckRateLimit(u)
  \/ \E u \in Users : \E code \in CodesAt(now, {0}) : VerifyAndCreateSession(u, code)
  \/ \E u \in Users : ClearSession(u)
  \/ TotpTick(EnrollTicks)

SpecEnroll == InitEnroll /\ [][NextEnroll]_vars

\* The tool gate over the same store, for no protected groups, the groups
\* of the tests, and one group.
GateGroups ==
  { << >>, << "group:fs", "group:web", "exec" >>, << "group:fs" >> }

InitGate ==
  /\ InitMonitorIdle
  /\ now = TickMs
  /\ totpFile = NoFile
  /\ totpCfg \in {[DefaultTotpCfg EXCEPT !.protectedToolGroups = g] : g \in GateGroups}
  /\ totpLast = NoOp
  /\ InitFileIdle
  /\ InitLateIdle
  /\ InitRoutingIdle
  /\ InitCodecIdle

NextGate ==
  \/ \E secret \in Secrets : EnrollTotpUser("u1", secret)
  \/ RevokeTotpUser("u1")
  \/ \E code \in CodesAt(now, 0..2) : VerifyAndCreateSession("u1", code)
  \/ ClearSession("u1")
  \/ TotpTick(TotpTicks)
  \/ \E i \in 1..Len(Tools), u \in Users : ToolExecute(i, u)

SpecGate == InitGate /\ [][NextGate]_vars

\* Two processes on a state directory without a store file, MaxOps
\* operations in all, of which at most MaxCrashes die on the way.
InitStoreFile ==
  /\ InitMonitorIdle
  /\ now = TickMs
  /\ InitTotpIdle
  /\ InitFileIdle
  /\ InitLateIdle
  /\ InitRoutingIdle
  /\ InitCodecIdle

NextStoreFile ==
  \/ \E p \in Procs, op \in StoreOpNames : Begin(p, op)
  \/ \E p \in Procs : Access(p)
  \/ \E p \in Procs : TmpOpened(p)
  \/ \E p \in Procs : WritePart(p)
  \/ \E p \in Procs : Rename(p)
  \/ \E p \in Procs : LockAcquired(p)
  \/ \E p \in Procs : LockGivenUp(p)
  \/ LockGoesStale
  \/ \E p \in Procs : ReadModify(p)
  \/ \E p \in Procs : Released(p)
  \/ \E p \in Procs : Crash(p)
  \/ StoreRead

SpecStoreFile == InitStoreFile /\ [][NextStoreFile]_vars

\* The heartbeats with and without a response prefix, under replies
\* that are silent, that carry an alert next to one token or between two,
\* an alert that already starts with the prefix, and media.
AlertCfgs ==
  { [timestampPrefix |-> TRUE, messagePrefix |-> "[warelay]", responsePrefix |-> ""],
    [timestampPrefix |-> TRUE, messagePrefix |-> "[warelay]", responsePrefix |-> "[p]"] }

AlertReplies ==
  HbReplies \cup
  { [present |-> TRUE, text |-> << >>, media |-> 0],
    [present |-> TRUE, text |-> << HEARTBEAT_TOKEN, " ", HEARTBEAT_TOKEN >>, media |-> 0],
    [present |-> TRUE, text |-> << " ", "a", " " >>, media |-> 0],
    [present |-> TRUE, text |-> << HEARTBEAT_TOKEN, " ", "b", " ", HEARTBEAT_TOKEN >>,
     media |-> 0],
    [present |-> TRUE, text |-> << "[p]", " ", "a" >>, media |-> 0],
    [present |-> TRUE, text |-> << "a", " ", HEARTBEAT_TOKEN >>, media |-> 1] }

ReplyHeartbeatAlert ==
  \E t \in timers, reply \in AlertReplies :
     \E touched \in BOOLEAN, sendOk \in BOOLEAN, viaIpc \in BOOLEAN :
        ReplyHeartbeatFires(t, reply, touched, sendOk, viaIpc)

InitAlert ==
  /\ InitMonitorQuiet
  /\ InitAside
  /\ lastHb = [NoHeartbeat EXCEPT !.traced = TRUE]
  /\ now = TickMs
  /\ recentlySent = << >>
  /\ store = [s1 |-> [exists |-> TRUE, sessionId |-> 5, updatedAt |-> TickMs],
              s2 |-> NoEntry]
  /\ sessionCfg = [idleMinutes |-> 1, heartbeatIdleMinutes |-> undefined]
  /\ keepAlive = TRUE
  /\ maxAttempts = 0
  /\ heartbeatSeconds = 600
  /\ replyHeartbeatMinutes = 1
  /\ cfg \in AlertCfgs
  /\ pc = "connected"
  /\ connects = 1
  /\ startedAt = TickMs
  /\ timers = createdTimers(1, TickMs)
  /\ ipcServer = TRUE
  /\ listenerOpen = TRUE
  /\ listenerSince = TickMs

NextAlert ==
  \/ (msgCount < LoopMsgs /\ OnMessage("s1", "a"))
  \/ \E q \in 0..1 : QueueChanges(q)
  \/ Tick(HbTicks)
  \/ ReplyHeartbeatAlert
  \/ \E reply \in AlertReplies :
        \E touched \in BOOLEAN, sendOk \in BOOLEAN :
           HeartbeatOnceCalled("s1", null, reply, touched, sendOk, FALSE)

SpecAlert == InitAlert /\ [][NextAlert]_vars

\* Registrations of plugin routes, calls of the functions they returned
\* and requests to the routes, with tokens of up to two characters.
Tokens == {NoToken, << "a", "b" >>} \cup {<< c >> : c \in TokenChars}

Headers ==
  {NoHeader, [scheme |-> "Basic", token |-> << "a" >>]}
    \cup {[scheme |-> "Bearer", token |-> t] : t \in Tokens}

InitHttp ==
  /\ InitMonitorIdle
  /\ now = TickMs
  /\ InitTotpIdle
  /\ InitFileIdle
  /\ InitRoutingIdle
  /\ InitCodecIdle
  /\ InitLateIdle

NextHttp ==
  \/ \E path \in Paths, requireAuth \in BOOLEAN : RegisterPluginHttpRoute(path, requireAuth)
  \/ \E call \in 1..MaxRegs : Unregister(call)
  \/ \E i \in 1..MaxRegs, header \in Headers, configured \in Tokens :
        Request(i, header, configured)

SpecHttp == InitHttp /\ [][NextHttp]_vars

\* The batcher over connections that close and are set up again.
NextClose ==
  \/ (msgCount < LoopMsgs /\ OnMessage("s1", "a"))
  \/ \E c \in Cycles, s \in Senders : BatchTimerFires(c, s)
  \/ AgentRepliesAny
  \/ \E q \in 0..MaxQueue : QueueChanges(q)
  \/ \E b \in BOOLEAN : ListenerClosed(b)
  \/ CloseFinished
  \/ SleepDone
  \/ Connected

SpecClose == InitBatch /\ [][NextClose]_vars

\* Calls of runWebHeartbeatOnce for s1 with exchanges of the senders
\* going on while the call waits for the agent.
InitBeat ==
  /\ InitRest
  /\ now = TickMs
  /\ recentlySent = << >>
  /\ store \in HbStores
  /\ sessionCfg = [idleMinutes |-> 1, heartbeatIdleMinutes |-> undefined]
  /\ keepAlive = TRUE
  /\ maxAttempts = 0
  /\ heartbeatSeconds = 60
  /\ replyHeartbeatMinutes = null
  /\ cfg = [timestampPrefix |-> TRUE, messagePrefix |-> "[warelay]", responsePrefix |-> ""]
  /\ pc = "start"
  /\ connects = 0
  /\ startedAt = 0
  /\ timers = {}
  /\ ipcServer = FALSE
  /\ listenerOpen = FALSE
  /\ listenerSince = 0

NextBeat ==
  \/ Tick(BeatTicks)
  \/ \E sid \in {null, 7} : BeatBegins("s1", sid)
  \/ \E s \in Senders : RealExchange(s)
  \/ \E reply \in HbReplies : \E touched \in BOOLEAN, sendOk \in BOOLEAN :
        BeatEnds(reply, touched, sendOk)

SpecBeat == InitBeat /\ [][NextBeat]_vars

\* checkTotpGate called for u1, one call at a time, with a code of the
\* current step of either secret or with another text, between
\* enrollments, revocations, cleared sessions and the passing of time.
GateCfgs ==
  {[DefaultTotpCfg EXCEPT !.maxAttempts = m] : m \in 0..MaxTotpAttempts}

Quiet == \A c \in GateCalls : gate.calls[c].pc \in {"idle", "done"}

InitGateSeq ==
  /\ InitMonitorIdle
  /\ now = TickMs
  /\ totpFile = NoFile
  /\ totpCfg \in GateCfgs
  /\ totpLast = NoOp
  /\ InitFileIdle
  /\ InitRoutingIdle
  /\ InitCodecIdle
  /\ InitLateIdle

GateSteps(c) ==
  \/ GateEnrolled(c)
  \/ GateSession(c)
  \/ GateRateLimit(c)
  \/ GateVerify(c)

NextGateSeq ==
  \/ (Quiet /\ EnrollTotpUser("u1", 1))
  \/ (Quiet /\ RevokeTotpUser("u1"))
  \/ (Quiet /\ ClearSession("u1"))
  \/ (Quiet /\ TotpTick(GateTicks))
  \/ \E code \in CodesAt(now, {0}) : GateCalled("c1", "u1", TRUE, code)
  \/ GateCalled("c1", "u1", FALSE, NoCode)
  \/ GateSteps("c1")

SpecGateSeq == InitGateSeq /\ [][NextGateSeq]_vars

\* Calls of checkTotpGate for the enrolled user u1 in progress at the same
\* time, each with a code of the current step of either secret.
EnrolledStore ==
  wholeFile([EMPTY_STORE EXCEPT
               !.users = << [telegramUserId |-> "u1", secretBase32 |-> 1] >>])

InitGateCalls ==
  /\ InitMonitorIdle
  /\ now = TickMs
  /\ totpFile = EnrolledStore
  /\ totpCfg = [DefaultTotpCfg EXCEPT !.maxAttempts = MaxTotpAttempts]
  /\ totpLast = NoOp
  /\ InitFileIdle
  /\ InitRoutingIdle
  /\ InitCodecIdle
  /\ InitLateIdle

NextGateCalls ==
  \/ \E c \in GateCalls, code \in CodesAt(now, {0}) : GateCalled(c, "u1", TRUE, code)
  \/ \E c \in GateCalls : GateSteps(c)
  \/ TotpTick(GateTicks)

SpecGateCalls == InitGateCalls /\ [][NextGateCalls]_vars

\* The operations of the store for u1 in one process, on a store file
\* that can be damaged or removed between them.
InitEmptyStore ==
  /\ InitMonitorIdle
  /\ now = TickMs
  /\ InitTotpIdle
  /\ InitFileIdle
  /\ InitRoutingIdle
  /\ InitCodecIdle
  /\ InitLateIdle

NextEmptyStore ==
  \/ \E op \in StoreOpNames, code \in CodesAt(now, {0}) : SharedOp(op, "u1", 1, code)
  \/ StoreFileDamaged
  \/ StoreFileRemoved
  \/ TotpTick(TotpTicks)

SpecEmptyStore == InitEmptyStore /\ [][NextEmptyStore]_vars

\* The codec on every buffer of up to MaxBytes bytes out of three, and on
\* the encoded string as it is, in lower case, padded, with white space,
\* and with a character that is no base32 character put before or after.
ByteVals == {0, 1, 255}

RECURSIVE BufsOf(_)
BufsOf(n) ==
  IF n = 0 THEN { << >> }
  ELSE BufsOf(n - 1) \cup {Append(b, v) : b \in {x \in BufsOf(n - 1) : Len(x) = n - 1},
                                          v \in ByteVals}

Strangers == {"1", "!", "U+00DF", "U+017F"}

lowerCased(str) ==
  [i \in 1..Len(str) |-> IF indexOf(str[i]) < 26 THEN LowerCase[indexOf(str[i]) + 1]
                         ELSE str[i]]

FormsOf(str) ==
  { <<"exact", str>>, <<"lower", lowerCased(str)>>, <<"padded", str \o << "=", "=" >> >>,
    <<"spaced", << " " >> \o str \o << "\n" >> >> }
  \cup { <<"stranger", << c >> \o str>> : c \in Strangers }
  \cup { <<"stranger", str \o << c >> >> : c \in Strangers }

InitBase32 ==
  /\ InitMonitorIdle
  /\ now = TickMs
  /\ InitTotpIdle
  /\ InitFileIdle
  /\ InitLateIdle
  /\ InitRoutingIdle
  /\ codec \in {[NoCodec EXCEPT !.buf = buf] : buf \in BufsOf(MaxBytes)}

NextBase32 ==
  \/ Encode
  \/ \E f \in FormsOf(codec.encoded) : Decode(f[1], f[2])

SpecBase32 == InitBase32 /\ [][NextBase32]_vars

\* Route resolution under every list of up to MaxBindings bindings out of
\* six, with agentC as the default agent, for messages of two channels,
\* accounts and peers, with or without parent peer, guild and team.
BindingPool ==
  { [kind |-> "peer", value |-> "p1", agentId |-> "agentA"],
    [kind |-> "channel", value |-> "tg", agentId |-> "agentB"],
    [kind |-> "guild", value |-> "g1", agentId |-> "agentD"],
    [kind |-> "team", value |-> "t1", agentId |-> "agentE"],
    [kind |-> "account", value |-> "acc1", agentId |-> "agentF"],
    [kind |-> "peer", value |-> "p1", agentId |-> "agentG"] }

RECURSIVE BindingLists(_)
BindingLists(n) ==
  IF n = 0 THEN { << >> }
  ELSE BindingLists(n - 1) \cup
       {Append(l, b) : l \in {x \in BindingLists(n - 1) : Len(x) = n - 1},
                       b \in BindingPool}

RouteMsgs ==
  [channel : {"tg", "slack"}, accountId : {"acc1", "acc2"}, peer : {"p1", "p2"},
   parentPeer : {"", "p1"}, guild : {"", "g1"}, team : {"", "t1"}]

InitRoute ==
  /\ InitMonitorIdle
  /\ now = TickMs
  /\ InitTotpIdle
  /\ InitFileIdle
  /\ InitLateIdle
  /\ routing \in {[NoRouting EXCEPT !.bindings = l] : l \in BindingLists(MaxBindings)}
  /\ InitCodecIdle

NextRoute == \E msg \in RouteMsgs : Resolve(msg)

SpecRoute == InitRoute /\ [][NextRoute]_vars

\* ------------------------------------------------- the connection loop claims
\* The loop has decided to exit: it is past a break, or awaits the
\* closeListener() that precedes one.
Stopping == pc = "stopped" \/ (pc = "closing" /\ next = "stop")

\* A step on which the race of the open connection resolves.
CloseStep == pc = "connected" /\ pc' = "closing"

\* The close of this step is counted as a failed connection: no
\* cancellation is pending and the reason is not a logout.
CountedClose ==
  /\ CloseStep
  /\ ~aborted' /\ ~sigintStop
  /\ ~reason'.aborted /\ ~reason'.isLoggedOut

CancelledNow == aborted' \/ sigintStop

LoggedOutNow == CloseStep /\ reason'.isLoggedOut /\ ~reason'.aborted

GaveUpNow ==
  /\ CloseStep
  /\ maxAttempts > 0
  /\ reconnectAttempts' >= maxAttempts
  /\ lastError' = "giveUp"

\* After a close that is retried: the backoff wait, then a new connection
\* attempt, unless the abort signal fires on the way.
RetryFollows ==
  /\ (CountedClose /\ ~GaveUpNow) => next' = "sleep"
  /\ (pc = "closing" /\ next = "sleep" /\ pc' # pc) => (pc' = "backoff" \/ aborted)
  /\ (pc = "backoff" /\ pc' # pc) =>
        ((pc' = "connecting" /\ connects' = connects + 1) \/ aborted')

\* C1 as stated: the loop exits only through a cancellation, a close with
\* isLoggedOut, or reconnectAttempts reaching maxAttempts > 0; every other
\* close is followed by a backoff wait and a new connection attempt.
C1_AsStated ==
  [][ /\ (~Stopping /\ Stopping') => (CancelledNow \/ LoggedOutNow \/ GaveUpNow)
      /\ RetryFollows ]_vars

\* C1 amended: with keepAlive = true the loop exits only through a
\* cancellation (abort signal, or a SIGINT seen when the connection
\* closes), a close with isLoggedOut, or reconnectAttempts reaching
\* maxAttempts > 0; with keepAlive = false it exits right after the first
\* connection is set up.  Every other close is followed by a backoff wait
\* and a new connection attempt.
C1_ExitCauses ==
  [][ /\ (~Stopping /\ Stopping') =>
           IF keepAlive THEN CancelledNow \/ LoggedOutNow \/ GaveUpNow
           ELSE CancelledNow \/ (pc = "connecting" /\ connects = 1)
      /\ RetryFollows ]_vars

C1_Witness ==
  /\ keepAlive /\ maxAttempts = 0 /\ ~aborted /\ ~sigintStop
  /\ pc = "connecting" /\ connects = 2 /\ lastError = "retry"

\* C2: a close with isLoggedOut = true closes the listener and stops: the
\* attempt counter is not incremented, no backoff wait is entered and no
\* further connection is opened, whatever maxAttempts is.
C2_LoggedOutStops ==
  [][ /\ LoggedOutNow =>
           /\ Stopping'
           /\ reconnectAttempts' <= reconnectAttempts
           /\ ~listenerOpen' /\ ~ipcServer' /\ timers' = {}
      /\ Stopping => (Stopping' /\ pc' # "backoff" /\ connects' = connects) ]_vars

C2_Witness ==
  /\ pc = "stopped" /\ lastError = "loggedOut" /\ reason.isLoggedOut
  /\ maxAttempts = 0 /\ reconnectAttempts = 1 /\ connects = 2

\* C3: once the abort signal has fired, (a) a backoff wait in progress ends
\* at once, (b) no new connection attempt is started, (c) an open connection
\* is closed through closeListener, with the heartbeat and watchdog timers
\* cleared and the IPC server stopped before the monitor returns.
C3_Cancellation ==
  [][ /\ (~aborted /\ aborted' /\ pc = "backoff") => pc' = "stopped"
      /\ aborted => connects' = connects
      /\ (~aborted /\ aborted' /\ pc = "connected") =>
            (Stopping' /\ timers' = {} /\ ~ipcServer' /\ ~listenerOpen')
      /\ (aborted' /\ pc' = "stopped") =>
            (timers' = {} /\ ~ipcServer' /\ ~listenerOpen') ]_vars

C3_Witness ==
  /\ aborted /\ pc = "stopped" /\ reason.aborted /\ connects = 2
  /\ keepAlive /\ timers = {} /\ ~ipcServer

\* C4: with maxAttempts = M > 0 the attempt counter never exceeds M, a
\* backoff wait is entered only while it is below M, and reaching M stops
\* the monitor with the give-up message; with maxAttempts = 0 every counted
\* close is retried.
C4_BoundedRetries ==
  [][ /\ maxAttempts > 0 => reconnectAttempts' <= maxAttempts
      /\ (maxAttempts > 0 /\ (pc' = "backoff" \/ (pc' = "closing" /\ next' = "sleep")))
            => reconnectAttempts' < maxAttempts
      /\ (maxAttempts > 0 /\ reconnectAttempts' >= maxAttempts)
            => (Stopping' /\ lastError' = "giveUp")
      /\ (maxAttempts = 0 /\ CountedClose)
            => (next' = "sleep" /\ lastError' = "retry") ]_vars

C4_Witness ==
  /\ maxAttempts = 2 /\ reconnectAttempts = 2 /\ lastError = "giveUp"
  /\ pc = "stopped" /\ connects = 2 /\ ~aborted /\ ~sigintStop

\* C5: a close after an uptime of more than one heartbeat interval sets
\* the counter to 0 before the close is counted, so the backoff that
\* follows uses attempts = 1; a close after a shorter uptime does not
\* reset it, and it grows by 1 per counted close.
C5_HealthyReset ==
  [][ CloseStep =>
        IF now - startedAt > heartbeatSeconds * 1000
        THEN /\ reconnectAttempts' = (IF CountedClose THEN 1 ELSE 0)
             /\ next' = "sleep" => backoffAttempts' = 1
        ELSE /\ reconnectAttempts' = reconnectAttempts + (IF CountedClose THEN 1 ELSE 0)
             /\ next' = "sleep" => backoffAttempts' = reconnectAttempts + 1 ]_vars

C5_Witness ==
  /\ pc = "closing" /\ next = "sleep" /\ connects = 3
  /\ now - startedAt > heartbeatSeconds * 1000
  /\ reconnectAttempts = 1 /\ backoffAttempts = 1

\* C6: at most one heartbeat, one watchdog and one reply-heartbeat timer is
\* armed, each belongs to the open connection of the current cycle, and
\* none is armed during a close, a backoff wait, a new connection attempt
\* or after the monitor has returned.
C6_NoLeakedTimers ==
  /\ \A k \in {"heartbeat", "watchdog", "replyHeartbeat"} :
        Cardinality({t \in timers : t.kind = k}) <= 1
  /\ \A t \in timers : t.cycle = connects /\ pc = "connected" /\ listenerOpen
  /\ pc \in {"connecting", "closing", "backoff", "stopped"} => timers = {}

C6_Witness ==
  /\ pc = "connected" /\ connects = 2 /\ Cardinality(timers) = 3
  /\ \A t \in timers : t.cycle = 2

\* ---------------------------------------------------------- the watchdog claim
\* The last sign of life of the open connection.
lastActivity == IF lastMessageAt # null THEN lastMessageAt ELSE listenerSince

\* C7: an open keepAlive connection, with or without a message received
\* on it, does not stay open once no message has arrived for the watchdog
\* timeout: the periodic check that follows closes the listener.
C7_AsStated ==
  (pc = "connected" /\ keepAlive /\ listenerOpen)
     => now - lastActivity <= MESSAGE_TIMEOUT_MS + WATCHDOG_CHECK_MS

\* The same bound for connections that did receive a message.
WatchdogAfterMessage ==
  (pc = "connected" /\ keepAlive /\ listenerOpen /\ lastMessageAt # null)
     => now - lastMessageAt <= MESSAGE_TIMEOUT_MS + WATCHDOG_CHECK_MS

WatchdogFired ==
  pc = "connected" /\ ~listenerOpen /\ lastMessageAt # null /\ timers = {}

\* ------------------------------------------------------- the batcher claims
FlushIdx == 1..Len(flushes)

\* a and b are neighbours, in this order, in the list of messages.
Adjacent(messages, a, b) ==
  \E i \in 1..(Len(messages) - 1) : messages[i].id = a /\ messages[i + 1].id = b

\* The places of message id: <<f, i>> for position i of flush f, and
\* <<Len(flushes) + 1, i>> for position i of a pending batch.
PlacesOf(id) ==
  {p \in FlushIdx \X (1..(MaxMsgs + 1)) :
     p[2] <= Len(flushes[p[1]].messages) /\ flushes[p[1]].messages[p[2]].id = id}

Ids(messages) == [i \in 1..Len(messages) |-> messages[i].id]

\* The ids flushed for sender s by the first n flushes, in flush order.
RECURSIVE FlushedOf(_, _)
FlushedOf(s, n) ==
  IF n = 0 THEN << >>
  ELSE FlushedOf(s, n - 1) \o
       (IF flushes[n].from = s THEN Ids(flushes[n].messages) ELSE << >>)

\* The ids pending for sender s in the cycles 1..c.
RECURSIVE PendingOf(_, _)
PendingOf(s, c) ==
  IF c = 0 THEN << >>
  ELSE PendingOf(s, c - 1) \o Ids(pendingBatches[c][s].messages)

\* The ids accepted from sender s, in arrival order.
AcceptedOf(s) == Ids(SelectSeq(accepted, LAMBDA m : m.from = s))

\* The texts a delivered reply registers besides the combined body.
ReplyTexts == UNION {{rl[j].text : j \in 1..Len(rl)} : rl \in ReplyLists}

\* Messages that arrived one after the other for one sender while the
\* queue stayed busy sit side by side in one batch.
WindowInOneBatch ==
  \A pr \in linked :
     \/ \E c \in Cycles, s \in Senders : Adjacent(pendingBatches[c][s].messages, pr[1], pr[2])
     \/ \E f \in FlushIdx : Adjacent(flushes[f].messages, pr[1], pr[2])

\* The combined body of a flush has one line per message, in order.
OneLinePerMessage ==
  \A f \in FlushIdx :
     /\ Len(flushes[f].body) = Len(flushes[f].messages)
     /\ \A i \in 1..Len(flushes[f].messages) :
           flushes[f].body[i].body = flushes[f].messages[i].body

\* C8 as stated: the messages of one sender that arrive while the queue is
\* busy end in exactly one flush, in arrival order, and that flush is one
\* agent invocation.
C8_AsStated ==
  /\ WindowInOneBatch
  /\ OneLinePerMessage
  /\ \A id \in busyIds : Cardinality(PlacesOf(id)) <= 1
  /\ \A f \in FlushIdx :
        (\A i \in 1..Len(flushes[f].messages) : flushes[f].messages[i].id \in busyIds)
           => flushes[f].invoked

\* C8 amended: the messages of one sender that arrive while the queue is
\* busy end in exactly one flush whose combined body has one line per
\* message in arrival order; the flush is one agent invocation unless its
\* combined body is found in recentlySent, where an earlier delivered reply
\* has registered it, and then it is none.
C8_OneFlush ==
  /\ WindowInOneBatch
  /\ OneLinePerMessage
  /\ \A id \in busyIds : Cardinality(PlacesOf(id)) <= 1
  /\ \A f \in FlushIdx :
        ~flushes[f].invoked =>
           \E g \in 1..(f - 1) :
              /\ flushes[g].invoked
              /\ g \notin inflight
              /\ (flushes[g].body = flushes[f].body \/ flushes[f].body \in ReplyTexts)

C8_Witness ==
  \E f \in FlushIdx :
     /\ Len(flushes[f].messages) = 3
     /\ flushes[f].invoked
     /\ \A i \in 1..3 : flushes[f].messages[i].id \in busyIds
     /\ {<<1, 2>>, <<2, 3>>} \subseteq linked

\* C9: every accepted message is in exactly one place, a pending batch or
\* a flush; a batch holds messages of its sender only; the messages of one
\* sender keep their arrival order within a flush and across flushes.
C9_ExactlyOnceInOrder ==
  /\ \A s \in Senders :
        FlushedOf(s, Len(flushes)) \o PendingOf(s, MaxConnects) = AcceptedOf(s)
  /\ \A f \in FlushIdx : \A i \in 1..Len(flushes[f].messages) :
        flushes[f].messages[i].from = flushes[f].from
  /\ \A c \in Cycles, s \in Senders : \A i \in 1..Len(pendingBatches[c][s].messages) :
        pendingBatches[c][s].messages[i].from = s

C9_Witness ==
  /\ Len(flushes) = 2
  /\ flushes[1].from = "s2" /\ Len(flushes[1].messages) = 1
  /\ flushes[1].messages[1].id = 2
  /\ flushes[2].from = "s1" /\ Len(flushes[2].messages) = 2
  /\ flushes[2].messages[1].id = 1 /\ flushes[2].messages[2].id = 3

\* A pending batch has a retry timer armed.
PendingHasTimer ==
  \A c \in Cycles, s \in Senders :
     Len(pendingBatches[c][s].messages) > 0 => batchTimers[c][s] > 0

NothingPending ==
  \A c \in Cycles, s \in Senders : Len(pendingBatches[c][s].messages) = 0

\* A message accepted while the queue is idle is flushed in the same step.
ImmediateFlush ==
  (queueSize = 0 /\ Len(accepted') = Len(accepted) + 1) =>
     /\ Len(flushes') = Len(flushes) + 1
     /\ flushes'[Len(flushes')].messages[Len(flushes'[Len(flushes')].messages)].id = msgCount'
     /\ Len(pendingBatches'[connects][accepted'[Len(accepted')].from].messages) = 0

\* C10: a batch is flushed at once when the queue is idle at arrival;
\* otherwise a retry timer is armed for as long as the batch is pending,
\* and when the queue becomes and stays idle every pending batch is
\* flushed and pendingBatches becomes empty.
C10_Drains ==
  /\ []PendingHasTimer
  /\ [][ImmediateFlush]_vars
  /\ (<>[](queueSize = 0)) => <>[]NothingPending

C10_Witness ==
  /\ queueSize = 0 /\ NothingPending
  /\ \E f \in FlushIdx :
        /\ Len(flushes[f].messages) = 2
        /\ \A i \in 1..2 : flushes[f].messages[i].id \in busyIds
  /\ \A c \in Cycles, s \in Senders : batchTimers[c][s] = 0

\* ------------------------------------------------------ the echo guard claims
\* A step on which onMessage runs for an inbound event.
InboundStep == msgCount' = msgCount + 1

\* The body of the inbound event of this step, as a text.
InboundText == PlainText(lastInboundMsg'.body)

\* The inbound event of this step is dropped by onMessage: nothing is
\* batched, no agent is invoked, and its body leaves recentlySent.
Suppressed ==
  /\ accepted' = accepted
  /\ pendingBatches' = pendingBatches
  /\ flushes' = flushes
  /\ inflight' = inflight
  /\ Has(recentlySent, InboundText)
  /\ ~Has(recentlySent', InboundText)

\* C11: an inbound event whose body is a text sent by a batch reply and not
\* yet echoed is suppressed, and the text leaves recentlySent on that hit;
\* an inbound event whose body is not in recentlySent, as after the hit, is
\* handed to the batcher.
C11_AsStated ==
  [][ InboundStep =>
        /\ ([via |-> "reply", text |-> InboundText] \in owed) => Suppressed
        /\ ~Has(recentlySent, InboundText) =>
              accepted' = Append(accepted, lastInboundMsg') ]_vars

\* The same with the default prefixes, where no combined body is a bare
\* message body.
EchoGuardWithPrefixes ==
  [][ (InboundStep /\ cfg.timestampPrefix) =>
        /\ ([via |-> "reply", text |-> InboundText] \in owed) => Suppressed
        /\ ~Has(recentlySent, InboundText) =>
              accepted' = Append(accepted, lastInboundMsg') ]_vars

\* An echo was suppressed once and the same body was accepted afterwards.
EchoSuppressedOnce ==
  /\ cfg.timestampPrefix
  /\ msgCount = 3 /\ Len(accepted) = 2
  /\ accepted[1].id = 1 /\ accepted[2].id = 3
  /\ accepted[1].body = "a" /\ accepted[2].body = "a"

\* C12: recentlySent never holds more than MAX_RECENT_MESSAGES entries.
C12_AsStated == Len(recentlySent) <= MAX_RECENT_MESSAGES

\* The bound for the sends of the IPC server, which add one entry and
\* evict one: they never make the set larger than it is, once it is full.
IpcSendKeepsSize ==
  [][ (owed' # owed /\ \E r \in owed' \ owed : r.via = "ipc") =>
         Len(recentlySent') <= IF Len(recentlySent) < MAX_RECENT_MESSAGES
                               THEN Len(recentlySent) + 1 ELSE Len(recentlySent) ]_vars

\* The oldest entry leaves first: an eviction removes the head.
EvictsOldestFirst ==
  [][ (Len(recentlySent) >= MAX_RECENT_MESSAGES /\ msgCount' = msgCount
       /\ recentlySent' # recentlySent /\ ~Has(recentlySent', Head(recentlySent)))
        => \A i \in 2..Len(recentlySent) : Has(recentlySent', recentlySent[i]) ]_vars

\* ------------------------------------------------------- the send claims
\* The texts that go out on this step.
NewlySent == owed' \ owed

\* The agent invocation of a flush ends on this step.
ReplyStep(i) == i \in inflight /\ i \notin inflight'

\* C13: the text of every successful send - a batch reply, a reply
\* heartbeat alert, an IPC send - is in recentlySent right after the send,
\* and after a batch reply with a text the combined body is too.
C13_AsStated ==
  [][ /\ \A r \in NewlySent :
            r.via \in {"reply", "heartbeat", "ipc"} => Has(recentlySent', r.text)
      /\ \A i \in FlushIdx :
            (ReplyStep(i) /\ \E r \in NewlySent : r.via = "reply")
               => Has(recentlySent', flushes[i].body) ]_vars

\* The same for batch replies and IPC sends alone.
RepliesAndIpcRegistered ==
  [][ /\ \A r \in NewlySent : r.via \in {"reply", "ipc"} => Has(recentlySent', r.text)
      /\ \A i \in FlushIdx :
            (ReplyStep(i) /\ \E r \in NewlySent : r.via = "reply")
               => Has(recentlySent', flushes[i].body) ]_vars

\* A batch reply and an IPC send have gone out and are registered.
RegisteredSends ==
  /\ [via |-> "ipc", text |-> PlainText("a")] \in owed
  /\ [via |-> "reply", text |-> PlainText("a")] \in owed
  /\ Len(recentlySent) = 2

\* ---------------------------------------------------- the heartbeat claims
\* runWebHeartbeatOnce runs on this step, the agent answers with exactly
\* the token and no media, and the recipient has a session.
TokenCall ==
  /\ lastHb'.calls = lastHb.calls + 1
  /\ lastHb'.tokenExact
  /\ store[lastHb'.to].exists

\* C18: when the heartbeat reply is exactly the token, the updatedAt of
\* the recipient's session is after runWebHeartbeatOnce what it was before,
\* with or without a sessionId argument.
C18_AsStated ==
  [][ TokenCall => store'[lastHb'.to].updatedAt = store[lastHb'.to].updatedAt ]_vars

\* The same for the calls without a sessionId argument.
TokenRestoresWithoutSessionId ==
  [][ (TokenCall /\ ~lastHb'.withSessionId)
        => store'[lastHb'.to].updatedAt = store[lastHb'.to].updatedAt ]_vars

\* A call without sessionId has put back the updatedAt of a minute ago.
TokenRestored ==
  /\ lastHb.calls = 1 /\ lastHb.tokenExact /\ ~lastHb.withSessionId
  /\ lastHb.storeWritten /\ lastHb.to = "s1"
  /\ store["s1"].updatedAt = TickMs /\ now = 2 * TickMs

\* A tick of runReplyHeartbeat.
HeartbeatTick == lastHb'.runs # lastHb.runs

\* C19: a tick of the reply heartbeat that finds the command queue busy
\* returns at once: no agent invocation, no read or write of the session
\* store, nothing sent.
C19_SkippedWhenBusy ==
  [][ (HeartbeatTick /\ queueSize > 0) =>
         /\ ~lastHb'.invoked /\ ~lastHb'.storeRead /\ ~lastHb'.storeWritten
         /\ ~lastHb'.sent /\ lastHb'.calls = lastHb.calls
         /\ store' = store /\ owed' = owed /\ recentlySent' = recentlySent
         /\ inflight' = inflight /\ flushes' = flushes ]_vars

C19_Witness ==
  /\ lastHb.runs = 1 /\ lastHb.queued > 0 /\ ~lastHb.invoked
  /\ queueSize > 0 /\ lastInboundMsg # NoMsg /\ now = 2 * TickMs
  /\ \A t \in timers : t.kind = "replyHeartbeat" => t.due = 3 * TickMs

\* ------------------------------------------------------ the session claims
\* The idle minutes configured for the last snapshot.
ConfiguredIdle ==
  IF lastHb.snapshot.isHeartbeat /\ sessionCfg.heartbeatIdleMinutes # undefined
  THEN sessionCfg.heartbeatIdleMinutes
  ELSE sessionCfg.idleMinutes

\* The report of the last snapshot for an idle limit of idle minutes.
ExpiryAt(idle) ==
  LET sn == lastHb.snapshot
  IN sn.taken =>
       /\ (sn.entry.exists /\ sn.entry.updatedAt = sn.at - (idle + 1) * 60000) => ~sn.fresh
       /\ (sn.entry.exists /\ sn.entry.updatedAt = sn.at) => sn.fresh
       /\ ~sn.entry.exists => ~sn.fresh
       /\ sn.fresh = (sn.entry.exists /\ sn.at - sn.entry.updatedAt <= idle * 60000)

\* C20 as stated: the snapshot reports an entry fresh exactly when its age
\* is at most the configured idleMinutes, for every configured value.
C20_AsStated == ExpiryAt(ConfiguredIdle)

\* C20 amended: the snapshot reports an entry fresh exactly when its age
\* is at most the idle limit, which is the configured idleMinutes (for a
\* heartbeat snapshot heartbeatIdleMinutes when set) raised to one minute
\* when it is below: an entry a minute older than the limit is stale, an
\* entry updated now is fresh, a missing entry is not fresh.
C20_IdleExpiry ==
  ExpiryAt(IF ConfiguredIdle > 1 THEN ConfiguredIdle ELSE 1)

C20_Witness ==
  /\ lastHb.snapshot.taken /\ lastHb.snapshot.entry.exists
  /\ ConfiguredIdle = 2 /\ lastHb.snapshot.idleMinutes = 2
  /\ lastHb.snapshot.at - lastHb.snapshot.entry.updatedAt = 3 * 60000
  /\ ~lastHb.snapshot.fresh

\* ----------------------------------------------------- the delivery claims
Delivering == dlv.phase \in {"media", "text", "done"}

\* The payloads whose deliverWebReply is over.
Completed == IF Delivering THEN dlv.delivered \cup dlv.failed ELSE {}

\* What went out for payload k, in order.
WireOf(k) == SelectSeq(dlv.wire, LAMBDA e : e.k = k)

\* The number of messages that carry chunk c of payload k, as the text
\* of a plain message or as a caption.
Carried(k, c) == Len(SelectSeq(WireOf(k), LAMBDA e : e.chunk = c))

ChunksOf(k) == textChunks(dlv.replyList[k].chars)

\* The chunks tile the text: they are not empty, not longer than the
\* limit, start at the first character, follow one another without a gap,
\* and end with the last character.
Tiles(chunks, chars) ==
  /\ \A j \in 1..Len(chunks) : chunks[j].len >= 1 /\ chunks[j].len <= WEB_TEXT_LIMIT
  /\ \A j \in 1..(Len(chunks) - 1) : chunks[j + 1].from = chunks[j].from + chunks[j].len
  /\ chunks # << >> => chunks[1].from = 0
  /\ textLength(chars) = (IF chunks = << >> THEN 0
                           ELSE chunks[Len(chunks)].from + chunks[Len(chunks)].len)

\* C15: the chunks of every reply text are non-empty, at most
\* WEB_TEXT_LIMIT long, and put together in order they are the text,
\* line breaks included.
C15_AsStated ==
  Delivering => \A k \in dlv.attempted : Tiles(ChunksOf(k), dlv.replyList[k].chars)

\* The same for the texts without a line break.
OneLineTextsTile ==
  Delivering =>
     \A k \in dlv.attempted :
        (\A j \in 1..Len(dlv.replyList[k].chars) : dlv.replyList[k].chars[j] # 0)
           => Tiles(ChunksOf(k), dlv.replyList[k].chars)

\* A line of two limits and a character went out in three chunks.
LongTextChunked ==
  /\ dlv.phase = "done" /\ Len(dlv.replyList) = 1 /\ 1 \in dlv.delivered
  /\ dlv.replyList[1].chars = << WEB_TEXT_LIMIT, WEB_TEXT_LIMIT, 1 >>
  /\ Len(dlv.wire) = 3 /\ dlv.wire[3].chunk = [from |-> 2 * WEB_TEXT_LIMIT, len |-> 1]

\* The first media item of payload k failed at one of the stages.
FirstMediaFailed(k, stages) == \E st \in stages : <<k, 1, st>> \in dlv.mediaFailed

\* Payload k, whose first media item failed and whose plain text sends
\* all went through, lost no text: deliverWebReply did not throw, every
\* media item was tried, the first chunk went out as a plain message and
\* every chunk went out once.
TextKept(k) ==
  /\ k \notin dlv.failed
  /\ \A j \in 1..Len(dlv.replyList[k].media) : <<k, j>> \in dlv.tried
  /\ \E j \in 1..Len(WireOf(k)) :
        WireOf(k)[j].kind = "text" /\ WireOf(k)[j].chunk = ChunksOf(k)[1]
  /\ \A j \in 1..Len(ChunksOf(k)) : Carried(k, ChunksOf(k)[j]) = 1

\* C14: when the first media item of a reply with text fails, in loading
\* or in sending, the first chunk goes out as a plain message, the other
\* media items are still tried, nothing is thrown and every text chunk is
\* delivered exactly once.
C14_AsStated ==
  \A k \in Completed :
     (FirstMediaFailed(k, {"load", "send"}) /\ ChunksOf(k) # << >> /\ k \notin dlv.replyFailed)
        => TextKept(k)

\* The same for a first media item that fails to load.
LoadFailureKeepsText ==
  \A k \in Completed :
     (FirstMediaFailed(k, {"load"}) /\ ChunksOf(k) # << >> /\ k \notin dlv.replyFailed)
        => TextKept(k)

\* The first of two media items failed to load and the text went out.
LoadFailureSeen ==
  /\ dlv.phase = "done" /\ Len(dlv.replyList) = 1 /\ 1 \in dlv.delivered
  /\ dlv.mediaFailed = {<<1, 1, "load">>}
  /\ Len(dlv.replyList[1].media) = 2 /\ Len(ChunksOf(1)) = 3
  /\ Len(dlv.wire) = 4 /\ dlv.wire[1].kind = "text" /\ dlv.wire[2].kind = "media"

\* No send of payload k failed.
NoFailure(k) ==
  /\ k \notin dlv.replyFailed
  /\ \A j \in 1..Len(dlv.replyList[k].media), st \in {"load", "send"} :
        <<k, j, st>> \notin dlv.mediaFailed

\* The messages of payload k when nothing fails: without media the chunks
\* in order; with media every item in list order, the first chunk as the
\* caption of the first, then the other chunks in order.
Expected(k) ==
  LET chunks == ChunksOf(k)
      media == dlv.replyList[k].media
  IN IF media = << >>
     THEN [j \in 1..Len(chunks) |-> textEvent(k, chunks[j])]
     ELSE [j \in 1..Len(media) |->
             mediaEvent(k, media[j], IF j = 1 /\ chunks # << >> THEN chunks[1] ELSE NoChunk)]
          \o (IF chunks = << >> THEN << >>
              ELSE [j \in 1..(Len(chunks) - 1) |-> textEvent(k, chunks[j + 1])])

\* C16: when no send fails, a reply without media goes out as its text
\* chunks in order, and a reply with media as every media item once in
\* list order, the first chunk as the caption of the first item only,
\* followed by the remaining chunks in order.
C16_InOrder ==
  Delivering => \A k \in dlv.delivered : NoFailure(k) => WireOf(k) = Expected(k)

C16_Witness ==
  /\ dlv.phase = "done" /\ Len(dlv.replyList) = 1 /\ dlv.delivered = {1}
  /\ dlv.mediaFailed = {} /\ dlv.replyFailed = {}
  /\ Len(dlv.replyList[1].media) = 2 /\ Len(ChunksOf(1)) = 3
  /\ Len(dlv.wire) = 4
  /\ dlv.wire[1].kind = "media" /\ dlv.wire[1].chunk = ChunksOf(1)[1]
  /\ dlv.wire[2].kind = "media" /\ dlv.wire[2].chunk = NoChunk
  /\ dlv.wire[4].kind = "text" /\ dlv.wire[4].chunk = ChunksOf(1)[3]

\* C17: a payload whose delivery throws is followed by the delivery of
\* the next payload; in the end every payload of the reply list has been
\* attempted, in list order, and the connection is open and connected
\* all along.
C17_FailureIsLocal ==
  Delivering =>
     /\ \A k \in dlv.failed : k < Len(dlv.replyList) => (k + 1) \in dlv.attempted
     /\ dlv.phase = "done" => dlv.attempted = 1..Len(dlv.replyList)
     /\ dlv.attempted = 1..dlv.k
     /\ \A j \in 1..(Len(dlv.wire) - 1) : dlv.wire[j].k <= dlv.wire[j + 1].k
     /\ pc = "connected" /\ listenerOpen /\ ipcServer

C17_Witness ==
  /\ dlv.phase = "done" /\ Len(dlv.replyList) = 2
  /\ dlv.failed = {1} /\ dlv.delivered = {2}
  /\ Len(WireOf(2)) = 1 /\ WireOf(2)[1].kind = "media"
  /\ pc = "connected" /\ listenerOpen

\* ------------------------------------------------------ the TOTP claims
\* The document at the store path (the empty store when there is no file)
\* and what it says about a user, read off the lists themselves.
Doc == totpFile.doc

EntriesOf(list, u) == {i \in 1..Len(list) : list[i].telegramUserId = u}

Enrolled(u) == EntriesOf(Doc.users, u) # {}

SessionValid(u) ==
  \E i \in EntriesOf(Doc.sessions, u) : now < Doc.sessions[i].expiresAt

EnrolledAfter(u) == EntriesOf(Doc'.users, u) # {}

SessionValidAfter(u) ==
  \E i \in EntriesOf(Doc'.sessions, u) : now' < Doc'.sessions[i].expiresAt

OthersOf(list, u) == SelectSeq(list, LAMBDA e : e.telegramUserId # u)

\* The step is a call of the operation op.
OpStep(op) == totpLast'.op = op /\ now' = now

\* The attempts that count for user u now: those of the entry, unless
\* there is none or its window is over.
AttemptsNow(u) ==
  IF \E i \in EntriesOf(Doc.rateLimits, u) :
        now - Doc.rateLimits[i].windowStart <= totpCfg.windowSec * 1000
  THEN Doc.rateLimits[CHOOSE i \in EntriesOf(Doc.rateLimits, u) : TRUE].attempts
  ELSE 0

Blocked(u) == AttemptsNow(u) >= totpCfg.maxAttempts

CodeValid(u, code) ==
  \E i \in EntriesOf(Doc.users, u) :
     \E c \in (timeCounter(now) - 1)..(timeCounter(now) + 1) :
        code = [secret |-> Doc.users[i].secretBase32, counter |-> c]

Protected(name) ==
  /\ totpCfg.protectedToolGroups # << >>
  /\ normalizeToolName(name) \in expandToolGroups(totpCfg.protectedToolGroups)

\* C23: the original execute of a tool runs exactly when the tool is not
\* protected or the sender has a valid session at the call; a protected
\* tool called without a valid session throws and the original execute
\* does not run.
C23_GateIffSession ==
  [][OpStep("execute") =>
       LET u == totpLast'.userId
           open == ~Protected(totpLast'.tool) \/ SessionValid(u)
       IN /\ totpLast'.invoked <=> open
          /\ ~open => totpLast'.result = "threw"
          /\ totpFile' = totpFile]_vars

\* A protected tool was called by a sender who is not enrolled, and the
\* call was rejected.
C23_Witness ==
  /\ totpLast.op = "execute" /\ totpLast.userId = "u2" /\ totpLast.tool = "Exec"
  /\ totpLast.result = "threw" /\ ~totpLast.invoked
  /\ Enrolled("u1") /\ SessionValid("u1")

\* C24 as stated: verifyAndCreateSession returns true and leaves a valid
\* session exactly when the user is enrolled, not rate limited and the
\* code is valid; otherwise it returns false and the sessions are unchanged.
C24_AsStated ==
  [][OpStep("verify") =>
       LET u == totpLast'.userId
           ok == Enrolled(u) /\ ~Blocked(u) /\ CodeValid(u, totpLast'.code)
       IN /\ (totpLast'.result = "true" /\ SessionValidAfter(u)) <=> ok
          /\ ~ok => totpLast'.result = "false" /\ Doc'.sessions = Doc.sessions]_vars

\* C24: verifyAndCreateSession returns true exactly when the user is
\* enrolled, not rate limited and the code is valid; the user then has one
\* session, which expires sessionDurationSec seconds after the call and so
\* is valid when sessionDurationSec is positive; otherwise it returns false
\* and the sessions are unchanged.
C24_VerifySession ==
  [][OpStep("verify") =>
       LET u == totpLast'.userId
           ok == Enrolled(u) /\ ~Blocked(u) /\ CodeValid(u, totpLast'.code)
       IN /\ totpLast'.result = "true" <=> ok
          /\ ok => /\ Cardinality(EntriesOf(Doc'.sessions, u)) = 1
                   /\ \A i \in EntriesOf(Doc'.sessions, u) :
                         Doc'.sessions[i].expiresAt = now + totpCfg.sessionDurationSec * 1000
                   /\ SessionValidAfter(u) <=> totpCfg.sessionDurationSec > 0
          /\ ~ok => totpLast'.result = "false" /\ Doc'.sessions = Doc.sessions]_vars

\* A valid code has just created a session that is valid.
C24_Witness ==
  /\ totpLast.op = "verify" /\ totpLast.result = "true"
  /\ SessionValid("u1")
  /\ CodeValid("u1", totpLast.code)

C26_NoDuplicateEnrollment ==
  [][/\ \A u \in Users : Cardinality(EntriesOf(Doc'.users, u)) <= 1
     /\ OpStep("enroll") =>
          IF Enrolled(totpLast'.userId)
          THEN totpLast'.result = "threw" /\ totpFile' = totpFile
          ELSE totpLast'.result = "enrolled" /\ EnrolledAfter(totpLast'.userId)]_vars

\* A second enrollment of a user was refused, both users being enrolled.
C26_Witness ==
  /\ totpLast.op = "enroll" /\ totpLast.result = "threw" /\ totpLast.userId = "u1"
  /\ Enrolled("u1") /\ Enrolled("u2")

RevokedCleanly(u) ==
  /\ totpLast'.result = "true"
  /\ EntriesOf(Doc'.users, u) = {}
  /\ EntriesOf(Doc'.sessions, u) = {}
  /\ EntriesOf(Doc'.rateLimits, u) = {}
  /\ Doc'.users = OthersOf(Doc.users, u)
  /\ Doc'.sessions = OthersOf(Doc.sessions, u)
  /\ Doc'.rateLimits = OthersOf(Doc.rateLimits, u)
  /\ ~EnrolledAfter(u) /\ ~SessionValidAfter(u)

\* C27 as stated: revoking an enrolled user removes the enrollment, the
\* sessions and the rate limit entries of that user and nothing else;
\* revoking a user who is not enrolled returns false and writes nothing.
C27_AsStated ==
  [][OpStep("revoke") =>
       IF Enrolled(totpLast'.userId)
       THEN RevokedCleanly(totpLast'.userId)
       ELSE totpLast'.result = "false" /\ totpFile' = totpFile]_vars

\* C27: as above, but revoking a user who is not enrolled returns false
\* and changes no entry: the one write it can make is that of the empty
\* store when there is no store file yet.
C27_RevokeFrame ==
  [][OpStep("revoke") =>
       IF Enrolled(totpLast'.userId)
       THEN RevokedCleanly(totpLast'.userId)
       ELSE /\ totpLast'.result = "false"
            /\ Doc' = Doc
            /\ totpFile' # totpFile => ~totpFile.exists /\ totpFile' = wholeFile(EMPTY_STORE)]_vars

\* A user with a session and a rate limit entry was revoked while the
\* other user keeps a session.
C27_Witness ==
  /\ totpLast.op = "revoke" /\ totpLast.result = "true" /\ totpLast.userId = "u1"
  /\ ~Enrolled("u1")
  /\ SessionValid("u2")
  /\ EntriesOf(Doc.rateLimits, "u2") # {}

\* ------------------------------------------------- the store file claims
Alive(p) == proc[p].pc # "dead"

\* The process has the release function of the lock in hand.
Holding(p) == proc[p].release /\ Alive(p)

\* The process is inside fn: reading, changing or writing the store.
InsideFn(p) ==
  \/ proc[p].pc = "read"
  \/ proc[p].after = "release" /\ proc[p].pc \in {"tmp", "write", "rename", "release"}

\* C21: fn of every mutating operation runs while its process holds the
\* lock, no two processes hold it at once, and a process that has left the
\* operation, by return or by throw, does not hold it: with every process
\* out of its operation the lock is free for the next one.
C21_LockDiscipline ==
  /\ \A p \in Procs : (InsideFn(p) /\ Alive(p)) =>
        Holding(p) /\ lock.holder = p /\ ~lock.stale
  /\ \A p, q \in Procs : (Holding(p) /\ Holding(q)) => p = q
  /\ \A p \in Procs : proc[p].pc = "idle" => ~proc[p].release /\ lock.holder # p
  /\ (\A p \in Procs : proc[p].pc = "idle") => lock = NoLock

\* A duplicate enrollment has thrown under the lock, and the other process
\* now holds the lock for its own operation.
C21_Witness ==
  /\ proc["p1"].pc = "idle" /\ proc["p1"].op = "enroll" /\ proc["p1"].result = "threw"
  /\ proc["p2"].pc = "read" /\ Holding("p2") /\ lock.holder = "p2"
  /\ disk.ops = MaxOps

\* C22: the file at the store path, once there, always holds a whole
\* document, and so does every read of it, whatever the writers do and
\* wherever one of them dies.
C22_AtomicWrites ==
  /\ disk.paths[StorePath].exists => disk.paths[StorePath].written = DocParts
  /\ disk.lastRead.exists => disk.lastRead.written = DocParts

\* Two processes are writing temporary files at the same time, one of
\* them half way, while the store path holds a document that was read.
C22_Witness ==
  /\ proc["p1"].pc = "write" /\ proc["p2"].pc \in {"write", "rename"}
  /\ proc["p1"].tmp # proc["p2"].tmp
  /\ disk.paths[proc["p1"].tmp].written = 1
  /\ disk.paths[StorePath].exists
  /\ disk.lastRead.exists /\ disk.lastRead.doc.users # << >>

\* A writer died half way: its temporary file stays behind, part written,
\* and the store path holds a whole document.
CrashLeavesTmp ==
  /\ disk.crashes = 1
  /\ \E p \in Procs : /\ proc[p].pc = "dead"
                      /\ disk.paths[proc[p].tmp].exists
                      /\ disk.paths[proc[p].tmp].written < DocParts
                      /\ proc[p].tmp # StorePath
  /\ disk.paths[StorePath].exists

\* An enrollment that returned is gone: a process that found no store file
\* writes the empty store, outside the lock, over a store written since.
EnrollmentOverwritten ==
  /\ \E p \in Procs : proc[p].pc = "idle" /\ proc[p].op = "enroll"
                      /\ proc[p].result = "enrolled"
  /\ disk.ops = 2
  /\ \A p \in Procs : proc[p].pc = "idle"
  /\ disk.paths[StorePath].exists /\ disk.paths[StorePath].doc = EMPTY_STORE

\* ---------------------------------------------------------- the codec claim
Decoded == codec.phase = "decoded"

\* C29 as stated: what encodeBase32 puts out decodes to the buffer, also in
\* lower case, with padding and with white space, and a string with a
\* character outside the base32 alphabet makes decodeBase32 throw.
C29_AsStated ==
  Decoded =>
    IF codec.form = "stranger"
    THEN codec.decoded.threw
    ELSE codec.decoded = [threw |-> FALSE, bytes |-> codec.buf]

\* The round trip, the forms that are ignored, and the throw for the
\* characters that toUpperCase leaves outside the alphabet.
Base32RoundTrips ==
  Decoded =>
    IF codec.form = "stranger"
    THEN (\E i \in 1..Len(codec.str) : codec.str[i] \in {"1", "!"}) => codec.decoded.threw
    ELSE codec.decoded = [threw |-> FALSE, bytes |-> codec.buf]

\* Five bytes, more than the 32 bits of value, came back from lower case.
LongBufferDecoded ==
  /\ Decoded /\ codec.form = "lower" /\ Len(codec.buf) = 5
  /\ codec.buf[1] = 255 /\ codec.buf[5] = 1
  /\ codec.decoded.bytes = codec.buf

\* --------------------------------------------------------- the route claim
Tiers == 1..6

\* Binding b is a match for the message m in tier t.
MatchIn(b, t, m) ==
  LET none == ""
  IN \/ t = 1 /\ b.kind = "peer" /\ b.value = m.peer
     \/ t = 2 /\ b.kind = "peer" /\ m.parentPeer # "" /\ b.value = m.parentPeer
     \/ t = 3 /\ b.kind = "guild" /\ m.guild # "" /\ b.value = m.guild
     \/ t = 4 /\ b.kind = "team" /\ m.team # "" /\ b.value = m.team
     \/ t = 5 /\ b.kind = "account" /\ b.value = m.accountId
     \/ t = 6 /\ b.kind = "channel" /\ b.value = m.channel

MatchesIn(t, m) == {i \in 1..Len(routing.bindings) : MatchIn(routing.bindings[i], t, m)}

Scenario ==
  << [kind |-> "peer", value |-> "p1", agentId |-> "agentA"],
     [kind |-> "channel", value |-> "tg", agentId |-> "agentB"] >>

\* C28: the agent is that of the first binding of the highest tier that
\* has a match (peer, parent peer, guild, team, account, channel), the
\* default agent when no tier has one; the scenario of the bindings
\* p1 -> agentA, tg -> agentB, default agentC resolves as told; there is
\* always an agent, and the bindings stay as they are.
C28_PriorityOrder ==
  [][LET r == routing'.last
         asked == routing'.msg
     IN /\ routing'.bindings = routing.bindings
        /\ r.asked /\ r.agentId # ""
        /\ r.matchedBy \in Tiers =>
             /\ MatchesIn(r.matchedBy, asked) # {}
             /\ \A t \in 1..(r.matchedBy - 1) : MatchesIn(t, asked) = {}
             /\ \E i \in MatchesIn(r.matchedBy, asked) :
                   /\ r.agentId = routing.bindings[i].agentId
                   /\ \A j \in MatchesIn(r.matchedBy, asked) : i <= j
        /\ r.matchedBy \notin Tiers =>
             /\ \A t \in Tiers : MatchesIn(t, asked) = {}
             /\ r.agentId = routing.defaultAgent
        /\ (routing.bindings = Scenario /\ asked.parentPeer = "") =>
             r.agentId = IF asked.peer = "p1" THEN "agentA"
                         ELSE IF asked.channel = "tg" THEN "agentB"
                         ELSE "agentC"]_vars

\* In the scenario a message of p2 on tg went to agentB.
C28_Witness ==
  /\ routing.bindings = Scenario
  /\ routing.msg.peer = "p2" /\ routing.msg.channel = "tg"
  /\ routing.last.asked /\ routing.last.agentId = "agentB" /\ routing.last.matchedBy = 6

\* ----------------------------------------------------- the heartbeat text
\* The step is a call of runWebHeartbeatOnce.
OnceStep == lastHb'.calls = lastHb.calls + 1

\* The step is a tick of runReplyHeartbeat that asked the agent itself.
AlertTick == lastHb'.runs # lastHb.runs /\ lastHb'.calls = lastHb.calls /\ lastHb'.invoked

\* The reply text trimmed, with every occurrence of the token taken out.
Removed(reply) == trim(SelectSeq(reply.text, LAMBDA w : w # HEARTBEAT_TOKEN))

Silent(reply) == reply.media = 0 /\ Removed(reply) = << >>

\* A prefix is configured that the text does not start with.
PrefixDue(reply) ==
  /\ cfg.responsePrefix # ""
  /\ Head(Removed(reply)) # cfg.responsePrefix

\* C30 as stated: on both paths a reply without media whose text is empty
\* once trimmed and rid of the token sends nothing and raises no error,
\* and when other text remains the text that is sent is the reply with
\* the token occurrences removed.
C30_AsStated ==
  [][(OnceStep \/ AlertTick) =>
       /\ Silent(lastHb'.reply) =>
            (~lastHb'.sent /\ lastHb'.text = << >> /\ ~lastHb'.threw)
       /\ (Removed(lastHb'.reply) # << >> /\ lastHb'.sent) =>
            lastHb'.text = Removed(lastHb'.reply)]_vars

\* C30 as amended: the silent case as stated; when other text remains,
\* runWebHeartbeatOnce sends the trimmed reply with the token occurrences
\* removed, and runReplyHeartbeat answering the last inbound message sends
\* that text behind the configured response prefix and a blank, unless the
\* text already starts with the prefix or no prefix is configured.
C30_HeartbeatText ==
  [][/\ ((OnceStep \/ AlertTick) /\ Silent(lastHb'.reply)) =>
          (~lastHb'.sent /\ lastHb'.text = << >> /\ ~lastHb'.threw)
     /\ (OnceStep /\ Removed(lastHb'.reply) # << >> /\ lastHb'.sent) =>
          lastHb'.text = Removed(lastHb'.reply)
     /\ (AlertTick /\ Removed(lastHb'.reply) # << >> /\ lastHb'.sent) =>
          lastHb'.text = IF PrefixDue(lastHb'.reply)
                         THEN << cfg.responsePrefix, " " >> \o Removed(lastHb'.reply)
                         ELSE Removed(lastHb'.reply)]_vars

\* The alert between two tokens went out behind the prefix.
C30_Witness ==
  /\ cfg.responsePrefix = "[p]"
  /\ lastHb.sent /\ lastHb.runs = 1 /\ lastHb.calls = 0
  /\ lastHb.reply.text = << HEARTBEAT_TOKEN, " ", "b", " ", HEARTBEAT_TOKEN >>
  /\ lastHb.text = << "[p]", " ", "b" >>

\* runWebHeartbeatOnce sent the alert between two tokens as it was.
OnceSentAlert ==
  /\ cfg.responsePrefix = "[p]"
  /\ lastHb.sent /\ lastHb.calls = 1 /\ lastHb.runs = 0
  /\ lastHb.text = << "b" >>

\* A silent reply on either path, with a send that would have failed.
SilentSeen ==
  /\ lastHb.invoked /\ lastHb.reply.present /\ Silent(lastHb.reply)
  /\ lastHb.reply.text = << HEARTBEAT_TOKEN, " ", HEARTBEAT_TOKEN >>

\* ---------------------------------------------------- the DM gate claims
\* Call c returns in this step.
Returns(c) == gate.calls[c].pc # "done" /\ gate'.calls[c].pc = "done"

\* The attempts of the user after the step.
AttemptsAfter(u) ==
  IF EntriesOf(Doc'.rateLimits, u) = {} THEN 0
  ELSE Doc'.rateLimits[CHOOSE i \in EntriesOf(Doc'.rateLimits, u) : TRUE].attempts

\* What C31 tells of the call that returns, with the store and the clock
\* as they are when it returns.
GateResultAsToldFor(c) ==
  LET call == gate.calls[c]
      u == call.userId
      res == gate'.calls[c].result
  IN IF ~Enrolled(u) \/ SessionValid(u) THEN res = "pass"
     ELSE IF ~call.isCode THEN res = "prompt" /\ totpFile' = totpFile
     ELSE IF Blocked(u) THEN res = "rate_limited"
     ELSE IF CodeValid(u, call.code)
     THEN res = "verified" /\ EntriesOf(Doc'.sessions, u) # {}
     ELSE res = "rejected" /\ AttemptsAfter(u) = AttemptsNow(u) + 1

\* C31: checkTotpGate returns pass for a user who is not enrolled or has
\* a valid session; else, for a six digit message, rate_limited when the
\* attempts of the window are used up, verified for a valid code (a
\* session then exists), rejected for another (attempts then one more);
\* and prompt for any other message, the store left as it was.
C31_AsStated ==
  [][\A c \in GateCalls : Returns(c) => GateResultAsToldFor(c)]_vars

\* The same with at least one attempt allowed.
GateResultsWithAttempts ==
  [][\A c \in GateCalls :
       (Returns(c) /\ totpCfg.maxAttempts > 0) => GateResultAsToldFor(c)]_vars

\* Each of the five results was returned.
GateRejectedSeen ==
  /\ gate.calls["c1"].result = "rejected" /\ totpCfg.maxAttempts = 2
  /\ AttemptsNow("u1") = 2

GateRateLimitedSeen == gate.calls["c1"].result = "rate_limited"

GateVerifiedSeen == gate.calls["c1"].result = "verified"

GatePromptSeen == gate.calls["c1"].result = "prompt"

\* C38 as stated: with calls in progress at the same time, the codes
\* compared and refused within one window are at most maxAttempts, and so
\* is the stored counter.
C38_AsStated ==
  /\ gate.fails <= totpCfg.maxAttempts
  /\ \A i \in 1..Len(Doc.rateLimits) : Doc.rateLimits[i].attempts <= totpCfg.maxAttempts

\* C38 as amended: the stored counter is at most maxAttempts, and so are
\* the codes compared and refused within one window since the last code
\* that was accepted.
C38_FailedCompares ==
  /\ gate.streak <= totpCfg.maxAttempts
  /\ \A i \in 1..Len(Doc.rateLimits) : Doc.rateLimits[i].attempts <= totpCfg.maxAttempts

\* maxAttempts codes were refused in one window and a further call that
\* was let through by checkRateLimit before that is turned down unseen.
C38_Witness ==
  /\ gate.streak = totpCfg.maxAttempts /\ totpCfg.maxAttempts = 2
  /\ \E c \in GateCalls : gate.calls[c].pc = "allowed"
  /\ \E c \in GateCalls : gate.calls[c].result = "rejected"

\* C37: after any sequence of enrollments, revocations, verifications
\* and cleared sessions from the empty store, every session and every
\* rate limit entry is that of an enrolled user, no user has two sessions
\* or two rate limit entries, and a user with a valid session is enrolled.
C37_EntriesOfEnrolled ==
  /\ \A i \in 1..Len(Doc.sessions) : Enrolled(Doc.sessions[i].telegramUserId)
  /\ \A i \in 1..Len(Doc.rateLimits) : Enrolled(Doc.rateLimits[i].telegramUserId)
  /\ \A u \in Users :
       /\ Cardinality(EntriesOf(Doc.sessions, u)) <= 1
       /\ Cardinality(EntriesOf(Doc.rateLimits, u)) <= 1
       /\ hasValidSession(totpFile, u, now) => isUserEnrolled(totpFile, u)

\* u2 was revoked and has no entry left, while u1 is enrolled with a
\* valid session and a rate limit entry.
C37_Witness ==
  /\ totpLast.op = "revoke" /\ totpLast.userId = "u2" /\ totpLast.result = "true"
  /\ EntriesOf(Doc.sessions, "u2") = {} /\ EntriesOf(Doc.rateLimits, "u2") = {}
  /\ Len(Doc.users) = 1 /\ Doc.users[1].telegramUserId = "u1"
  /\ SessionValid("u1") /\ EntriesOf(Doc.rateLimits, "u1") # {}

\* ensureJsonFile of process p puts its file at the store path in this
\* step: the rename of the write made before the lock is taken.
EnsureRenames(p) ==
  /\ proc[p].pc = "rename" /\ proc[p].after = "lock"
  /\ proc'[p].pc = "lock"

\* The store file holds users or sessions.
StoreHoldsEntries ==
  /\ disk.paths[StorePath].exists
  /\ disk.paths[StorePath].doc.users # << >> \/ disk.paths[StorePath].doc.sessions # << >>

\* C32 as stated: no store change that was completed is lost through the
\* operation of another process: the write that ensureJsonFile makes
\* before the lock never puts the empty store in the place of a store
\* file that holds users or sessions.
C32_AsStated ==
  [][\A p \in Procs : EnsureRenames(p) => ~StoreHoldsEntries]_vars

\* ------------------------------------------------- the EMPTY_STORE claim
\* C33 as stated: no operation of the store changes EMPTY_STORE, the
\* readJsonFile fallback included, and every file that ensureJsonFile
\* creates holds the empty store.
C33_AsStated ==
  [][/\ emptyStore' = EMPTY_STORE
     /\ (~totpFile.exists /\ totpFile'.exists) => ensuredFile.doc = EMPTY_STORE]_vars

\* With a store file that parses at every call, EMPTY_STORE stays as it
\* is.
ParsedStoreKeepsEmpty ==
  [][(totpFile.exists => safeParseJson(totpFile)) => emptyStore' = emptyStore]_vars

\* An operation that found no store file has left a file in which a user
\* is enrolled who was not enrolled by that operation.
NewFileNotEmpty ==
  /\ totpLast.op = "clear" /\ totpLast.result = "false"
  /\ totpFile.exists /\ totpFile.doc.users # << >>
  /\ totpFile.doc = emptyStore

\* ---------------------------------------------- the heartbeat race claim
\* A call of runWebHeartbeatOnce ends in this step.
BeatEnded == beat.pc = "awaiting" /\ beat'.pc = "idle"

\* C34 as stated: a silent heartbeat never undoes a real exchange: the
\* updatedAt of the recipient is not moved back behind an exchange that
\* took place between the snapshot and the restore.
C34_AsStated ==
  [][(BeatEnded /\ beat.real # 0) => store'[beat.to].updatedAt >= beat.real]_vars

\* A heartbeat during which no exchange took place leaves updatedAt as
\* it is, or changes it to the value of the snapshot or to the time of
\* its own agent call.
QuietBeatRestores ==
  [][(BeatEnded /\ beat.real = 0 /\ beat.snapshot.entry.exists
        /\ store'[beat.to].updatedAt # store[beat.to].updatedAt)
       => store'[beat.to].updatedAt \in {beat.snapshot.entry.updatedAt, now}]_vars

\* The updatedAt written by an exchange during the call is gone.
ExchangeUndone ==
  /\ beat.pc = "idle" /\ beat.runs = 1 /\ beat.real = 2 * TickMs
  /\ store["s1"].updatedAt = TickMs /\ now = 2 * TickMs

\* ----------------------------------------------------- the SIGINT claim
\* C35 as stated: once SIGINT was received no new connection attempt is
\* started: the listener factory is not called again, whether the signal
\* came while connected or during a backoff wait.
C35_AsStated == [][sigintStop => connects' = connects]_vars

\* With SIGINT received while connected, the close of the connection
\* that follows ends the loop.
SigintStopsAtClose ==
  [][(sigintStop /\ pc = "connected" /\ pc' = "closing") => next' = "stop"]_vars

\* SIGINT came during the first connection, and the monitor has stopped
\* without a second one.
SigintStopped ==
  /\ sigintStop /\ ~aborted /\ pc = "stopped" /\ connects = 1 /\ keepAlive
  /\ ~reason.isLoggedOut /\ lastError = "none"

\* SIGINT came during a backoff wait, and a new connection is up.
SigintThenConnected ==
  /\ sigintStop /\ ~aborted /\ pc = "connected" /\ connects = 2

\* ------------------------------------------------ the batch timer claim
\* A retry timer of processBatch is armed.
BatchTimerArmed(c, s) == batchTimers[c][s] > 0

\* C36 as stated: once closeListener has run for a connection, no retry
\* timer of a pending batch of that connection is left to fire, and no
\* flush of that connection invokes the agent after the close.
C36_AsStated ==
  [][/\ \A c \in Cycles, s \in Senders :
          BatchTimerArmed(c, s)' => (c = connects' /\ listenerOpen')
     /\ Len(flushes') > Len(flushes) =>
          (listenerOpen /\ flushes'[Len(flushes')].cycle = connects)]_vars

\* The interval timers of a connection that was closed are cleared.
IntervalTimersCleared ==
  [][\A t \in timers' : t.cycle = connects' /\ listenerOpen']_vars

\* The batch of a connection that was closed has been flushed by its
\* retry timer, with the agent invoked, while the next connection is up.
FlushAfterClose ==
  /\ pc = "connected" /\ connects = 2
  /\ Len(flushes) = 1 /\ flushes[1].cycle = 1 /\ flushes[1].invoked
  /\ inflight = {1} /\ msgCount = 1

\* ------------------------------------------------ the plugin route claims
Routes == http.routes

\* The step is a call of registerPluginHttpRoute, of a function it
\* returned, or a request.
HttpStep(op) == http'.ops = http.ops + 1 /\ http'.last.op = op

\* The entries of a list of routes that call number call did not make.
NotMadeBy(routes, call) == SelectSeq(routes, LAMBDA e : e.id # call)

\* C39: registry.httpRoutes holds at most one entry per normalized path;
\* a registration with a missing path or with a path that is registered
\* adds nothing and the function it returns removes nothing; the function
\* returned by a registration that added an entry removes that entry and
\* no other, and nothing when it is called again.
C39_OneRoutePerPath ==
  [][/\ \A i, j \in 1..Len(Routes') : Routes'[i].path = Routes'[j].path => i = j
     /\ HttpStep("register") =>
          LET path == http'.last.path
          IN IF path = NoPath \/ \E i \in 1..Len(Routes) : Routes[i].path = path
             THEN Routes' = Routes
             ELSE /\ Len(Routes') = Len(Routes) + 1
                  /\ SubSeq(Routes', 1, Len(Routes)) = Routes
                  /\ Routes'[Len(Routes')].path = path
                  /\ Routes'[Len(Routes')].id = http'.last.handle
     /\ HttpStep("unregister") => Routes' = NotMadeBy(Routes, http'.last.handle)]_vars

\* The function of a registration of /a that was refused was called and
\* the route of the first registration of /a is still there, after the
\* route of /b was removed by its own function.
C39_Witness ==
  /\ http.last.op = "unregister" /\ http.last.handle = 2
  /\ Len(http.regs) = 3 /\ http.regs[1].path = "/a" /\ http.regs[2].path = "/a"
  /\ http.regs[3].path = "/b" /\ http.regs[3].entry = 3
  /\ Len(Routes) = 1 /\ Routes[1].id = 1

\* The request of the step went to a route registered with requireAuth.
GuardedRequest ==
  /\ HttpStep("request")
  /\ \E i \in 1..Len(Routes) : Routes[i].id = http'.last.handle /\ Routes[i].requireAuth

BearerToken(header) == IF header.scheme = "Bearer" THEN header.token ELSE NoToken

\* C40 as stated: the handler of a route with requireAuth is invoked only
\* for a bearer token equal to the configured gateway token; a request
\* without bearer token gets 401, a request with another token, or with
\* no gateway token configured, gets 403, and the handler is not called.
C40_AsStated ==
  [][GuardedRequest =>
       LET last == http'.last
           token == BearerToken(last.header)
       IN /\ last.invoked => (token # NoToken /\ token = last.configured)
          /\ token = NoToken => (last.status = 401 /\ ~last.invoked)
          /\ (token # NoToken /\ (last.configured = NoToken \/ token # last.configured))
               => (last.status = 403 /\ ~last.invoked)]_vars

\* The handler is invoked only for the configured token, a request
\* without bearer token gets 401, and a request with no gateway token
\* configured, or with a token of another length, gets 403.
GuardKeepsOthersOut ==
  [][GuardedRequest =>
       LET last == http'.last
           token == BearerToken(last.header)
       IN /\ last.invoked => (token # NoToken /\ token = last.configured)
          /\ token = NoToken => (last.status = 401 /\ ~last.invoked)
          /\ (token # NoToken /\ (last.configured = NoToken
                                    \/ Len(token) # Len(last.configured)))
               => (last.status = 403 /\ ~last.invoked)]_vars

\* The guard has thrown.
GuardThrew == http.last.op = "request" /\ http.last.threw

\* A request with the configured token has reached the handler.
GuardPassed ==
  /\ http.last.op = "request" /\ http.last.invoked
  /\ http.last.configured = << "U+00E9" >>
  /\ \E i \in 1..Len(Routes) : Routes[i].id = http.last.handle /\ Routes[i].requireAuth
====
